---- MODULE Spec2Model ----
(***************************************************************************)
(* Verification model of the storage core of Auraverse-Project:            *)
(*   src/storage/schema_analyzer.py  (flatten_paths, analyze_batch)        *)
(*   src/storage/sql_store.py        (SQLStore)                            *)
(*   src/storage/doc_store.py        (DocStore)                            *)
(*                                                                         *)
(* Python strings are sequences of one-character strings, so that          *)
(* endswith / replace / "in" are computed and not assumed.  A JSON value   *)
(* is a record [t, n, s, kids] of one fixed shape:                         *)
(*   t    the Python type as _type_name sees it,                           *)
(*   n    the number (bool: 0/1, int: the value, float: the value in       *)
(*        halves, so that 1.0 is n = 2),                                   *)
(*   s    the characters of a str,                                         *)
(*   kids the items of a dict, in insertion order, as [k, v] records, or   *)
(*        the elements of a list (k is empty).                             *)
(***************************************************************************)
EXTENDS Integers, Sequences, FiniteSets, TLC

VARIABLES
    docs,           \* analyzer: the batch passed to analyze_batch
    analysis,       \* analyzer: what analyze_batch returned or raised
    proposal,       \* proposer: what propose_sql_model returned
    sqlArgs,        \* SQLStore: the batch of each of the two callers, and their kind of model
    sqlMeta,        \* SQLStore: self.meta.tables, table name -> column names
    sqlDb,          \* SQLStore: the committed database, table name -> columns and rows
    sqlLast,        \* SQLStore: the last call and how it ended
    docDb,          \* DocStore: the committed database, documents and key_index
    docConn,        \* DocStore: the database as self.conn sees it, uncommitted rows included
    docLast,        \* DocStore: the last call and how it ended
    docHist,        \* DocStore: the documents given to the inserts that returned, per
                    \* namespace, and whether a call has raised
    registry,       \* SchemaRegistry: self.schemas and self.snapshots
    regCalls,       \* SchemaRegistry: the register calls made so far, in order
    regLast,        \* registry and router: the last call and what it returned
    retriever,      \* SchemaRetriever: names, docs, the fitted vectorizer and the matrix
    retLast,        \* SchemaRetriever: the last call and what it returned
    procs           \* the threads that run register, build and search step by step

analyzerVars == <<docs, analysis, proposal>>
sqlVars == <<sqlArgs, sqlMeta, sqlDb, sqlLast>>
docVars == <<docDb, docConn, docLast, docHist>>
regVars == <<registry, regCalls, regLast>>
retVars == <<retriever, retLast, procs>>
ragVars == <<regVars, retVars>>
vars == <<docs, analysis, proposal, sqlArgs, sqlMeta, sqlDb, sqlLast, docDb, docConn, docLast, docHist,
          registry, regCalls, regLast, retriever, retLast, procs>>

(***************************************************************************)
(* Bounds                                                                  *)
(***************************************************************************)
MaxDocs == 5          \* analyzer: documents in a batch
MaxBatch == 2         \* SQLStore: documents in a batch
MaxRows == 3          \* SQLStore: rows of the top table
MaxDocBatch == 2      \* DocStore: documents in a batch
MaxDocRows == 3       \* DocStore: rows of documents

(***************************************************************************)
(* JSON values                                                             *)
(***************************************************************************)
VNull == [t |-> "null", n |-> 0, s |-> <<>>, kids |-> <<>>]
VBool(b) == [t |-> "bool", n |-> IF b THEN 1 ELSE 0, s |-> <<>>, kids |-> <<>>]
VInt(i) == [t |-> "int", n |-> i, s |-> <<>>, kids |-> <<>>]
VFloat(h) == [t |-> "float", n |-> h, s |-> <<>>, kids |-> <<>>]
VStr(cs) == [t |-> "str", n |-> 0, s |-> cs, kids |-> <<>>]
VList(vs) == [t |-> "list", n |-> 0, s |-> <<>>,
              kids |-> [i \in 1..Len(vs) |-> [k |-> <<>>, v |-> vs[i]]]]
VObj(items) == [t |-> "obj", n |-> 0, s |-> <<>>, kids |-> items]
KV(key, val) == [k |-> key, v |-> val]

IsDict(v) == v.t = "obj"
IsList(v) == v.t = "list"

(***************************************************************************)
(* Python dict: insertion-ordered sequence of [k, v]; assigning to an      *)
(* existing key keeps the key's position.                                  *)
(***************************************************************************)
DictHas(d, key) == \E i \in 1..Len(d) : d[i].k = key
DictIdx(d, key) == CHOOSE i \in 1..Len(d) : d[i].k = key
DictGet(d, key, dflt) == IF DictHas(d, key) THEN d[DictIdx(d, key)].v ELSE dflt
DictSet(d, key, val) ==
    IF DictHas(d, key)
    THEN [d EXCEPT ![DictIdx(d, key)] = KV(key, val)]
    ELSE Append(d, KV(key, val))
RECURSIVE DictUpdate(_, _)
DictUpdate(d, other) ==
    IF other = <<>> THEN d
    ELSE DictUpdate(DictSet(d, Head(other).k, Head(other).v), Tail(other))
DictKeys(d) == [i \in 1..Len(d) |-> d[i].k]

(***************************************************************************)
(* Python str helpers                                                      *)
(***************************************************************************)
Brackets == <<"[", "]">>
EndsWithBrackets(p) ==
    Len(p) >= 2 /\ p[Len(p) - 1] = "[" /\ p[Len(p)] = "]"

StartsWithAt(str, i, sub) ==
    /\ i + Len(sub) - 1 <= Len(str)
    /\ \A j \in 1..Len(sub) : str[i + j - 1] = sub[j]

\* str.replace(old, new), old not empty
RECURSIVE ReplaceFrom(_, _, _, _)
ReplaceFrom(str, i, old, new) ==
    IF i > Len(str) THEN <<>>
    ELSE IF StartsWithAt(str, i, old) THEN new \o ReplaceFrom(str, i + Len(old), old, new)
    ELSE <<str[i]>> \o ReplaceFrom(str, i + 1, old, new)

Replace(str, old, new) == ReplaceFrom(str, 1, old, new)

\* sep.join(parts)
RECURSIVE Join(_, _)
Join(sep, parts) ==
    IF parts = <<>> THEN <<>>
    ELSE IF Len(parts) = 1 THEN parts[1]
    ELSE parts[1] \o sep \o Join(sep, Tail(parts))

Contains(str, c) == \E i \in 1..Len(str) : str[i] = c

\* str.split(c)
RECURSIVE SplitFrom(_, _, _, _)
SplitFrom(str, i, c, cur) ==
    IF i > Len(str) THEN <<cur>>
    ELSE IF str[i] = c THEN <<cur>> \o SplitFrom(str, i + 1, c, <<>>)
    ELSE SplitFrom(str, i + 1, c, Append(cur, str[i]))

Split(str, c) == SplitFrom(str, 1, c, <<>>)

(***************************************************************************)
(* IEEE-754 binary64 arithmetic, round to nearest even.  A float is        *)
(* [sg, m, e] with value sg * m * 2^e, where m is an odd natural number    *)
(* (or zero) written in base 2^15, least significant limb first, without   *)
(* high zero limbs; zero is the empty m.  Every operation computes the     *)
(* exact result and rounds it to 53 significant bits, as the hardware      *)
(* does; the magnitudes met here are far from overflow and from the        *)
(* subnormal range.                                                        *)
(***************************************************************************)
Precision == 53
LimbBits == 15
Base == 2 ^ LimbBits

Max(a, b) == IF a > b THEN a ELSE b
Min(a, b) == IF a < b THEN a ELSE b

Limb(x, i) == IF i \in 1..Len(x) THEN x[i] ELSE 0

Norm(x) ==
    LET nz == {i \in 1..Len(x) : x[i] # 0}
    IN IF nz = {} THEN <<>>
       ELSE SubSeq(x, 1, CHOOSE i \in nz : \A j \in nz : j <= i)

SmallBitLen(k) ==
    IF k = 0 THEN 0 ELSE CHOOSE b \in 1..31 : 2 ^ (b - 1) <= k /\ (b = 31 \/ k < 2 ^ b)

BitLen(x) == IF x = <<>> THEN 0 ELSE LimbBits * (Len(x) - 1) + SmallBitLen(x[Len(x)])

\* bit i of x, bit 0 the least significant
Bit(x, i) == (Limb(x, (i \div LimbBits) + 1) \div (2 ^ (i % LimbBits))) % 2

\* x mod 2^k # 0
LowBitsNonZero(x, k) ==
    \/ \E i \in 1..Min(k \div LimbBits, Len(x)) : x[i] # 0
    \/ Limb(x, (k \div LimbBits) + 1) % (2 ^ (k % LimbBits)) # 0

\* x div 2^k
ShiftRight(x, k) ==
    LET w == k \div LimbBits
        f == k % LimbBits
    IN Norm([j \in 1..Max(Len(x) - w, 0) |->
                (Limb(x, j + w) \div (2 ^ f))
                + (Limb(x, j + w + 1) % (2 ^ f)) * (2 ^ (LimbBits - f))])

\* x * 2^k
ShiftLeft(x, k) ==
    LET w == k \div LimbBits
        f == k % LimbBits
    IN Norm([j \in 1..(Len(x) + w + 1) |->
                IF j <= w THEN 0
                ELSE ((Limb(x, j - w) * (2 ^ f)) % Base)
                     + ((Limb(x, j - w - 1) * (2 ^ f)) \div Base)])

RECURSIVE AddFrom(_, _, _, _)
AddFrom(a, b, i, c) ==
    IF i > Max(Len(a), Len(b)) THEN (IF c = 0 THEN <<>> ELSE <<c>>)
    ELSE LET z == Limb(a, i) + Limb(b, i) + c
         IN <<z % Base>> \o AddFrom(a, b, i + 1, z \div Base)

\* a >= b
RECURSIVE SubFrom(_, _, _, _)
SubFrom(a, b, i, c) ==
    IF i > Len(a) THEN <<>>
    ELSE LET z == Limb(a, i) - Limb(b, i) - c
         IN <<z % Base>> \o SubFrom(a, b, i + 1, IF z < 0 THEN 1 ELSE 0)

NatAdd(a, b) == Norm(AddFrom(a, b, 1, 0))
NatSub(a, b) == Norm(SubFrom(a, b, 1, 0))

NatLess(a, b) ==
    \/ Len(a) < Len(b)
    \/ /\ Len(a) = Len(b)
       /\ \E i \in 1..Len(a) : /\ a[i] < b[i]
                               /\ \A j \in (i + 1)..Len(a) : a[j] = b[j]

\* schoolbook division of x by d < 2^16, from the most significant limb i down
RECURSIVE DivFrom(_, _, _, _, _)
DivFrom(x, i, d, r, q) ==
    IF i = 0 THEN [q |-> q, r |-> r]
    ELSE LET v == r * Base + x[i]
         IN DivFrom(x, i - 1, d, v % d, <<v \div d>> \o q)

NatOfInt(k) == Norm(<<k % Base, (k \div Base) % Base, k \div (Base * Base)>>)

FZero == [sg |-> 1, m |-> <<>>, e |-> 0]

Canon(sg, x, e) ==
    IF x = <<>> THEN FZero
    ELSE LET w == (CHOOSE i \in 1..Len(x) : x[i] # 0 /\ \A j \in 1..(i - 1) : x[j] = 0) - 1
             f == CHOOSE g \in 0..(LimbBits - 1) :
                     /\ x[w + 1] % (2 ^ g) = 0
                     /\ x[w + 1] % (2 ^ (g + 1)) # 0
             tz == LimbBits * w + f
         IN [sg |-> sg, m |-> ShiftRight(x, tz), e |-> e + tz]

\* x without high zero limbs; sticky: the exact value has non-zero bits below x
RoundBits(sg, x, e, sticky) ==
    IF BitLen(x) <= Precision THEN Canon(sg, x, e)
    ELSE LET sh == BitLen(x) - Precision
             keep == ShiftRight(x, sh)
             guard == Bit(x, sh - 1)
             rest == sticky \/ LowBitsNonZero(x, sh - 1)
             up == guard = 1 /\ (rest \/ Bit(keep, 0) = 1)
         IN Canon(sg, IF up THEN NatAdd(keep, <<1>>) ELSE keep, e + sh)

FromInt(k) == Canon(IF k < 0 THEN -1 ELSE 1, NatOfInt(IF k < 0 THEN -k ELSE k), 0)

\* x / d, d a positive int
FDivInt(x, d) ==
    IF x.m = <<>> THEN FZero
    ELSE LET k == Precision + 2 + SmallBitLen(d)
             num == ShiftLeft(x.m, k)
             res == DivFrom(num, Len(num), d, 0, <<>>)
         IN RoundBits(x.sg, Norm(res.q), x.e - k, res.r # 0)

FNeg(x) == IF x.m = <<>> THEN x ELSE [x EXCEPT !.sg = -x.sg]

FAdd(x, y) ==
    IF x.m = <<>> THEN y
    ELSE IF y.m = <<>> THEN x
    ELSE LET e0 == Min(x.e, y.e)
             a == ShiftLeft(x.m, x.e - e0)
             b == ShiftLeft(y.m, y.e - e0)
         IN IF x.sg = y.sg THEN RoundBits(x.sg, NatAdd(a, b), e0, FALSE)
            ELSE IF NatLess(a, b) THEN RoundBits(y.sg, NatSub(b, a), e0, FALSE)
            ELSE RoundBits(x.sg, NatSub(a, b), e0, FALSE)

FSub(x, y) == FAdd(x, FNeg(y))

\* x >= y
FGe(x, y) == FSub(x, y).sg = 1

(***************************************************************************)
(* schema_analyzer.py                                                      *)
(***************************************************************************)
_type_name(v) == v.t

RECURSIVE flatten_paths(_, _)
RECURSIVE FlattenItems(_, _, _, _)
\* the loop of flatten_paths over d.items(), from item i on, paths so far
FlattenItemsAppending(items, i, parent, paths) ==
    IF i > Len(items) THEN paths
    ELSE LET k == items[i].k
             v == items[i].v
             p == IF parent # <<>> THEN parent \o <<".">> \o k ELSE k
             p1 == Append(paths, KV(p, _type_name(v)))
             p2 == IF IsDict(v) THEN p1 \o flatten_paths(v, p)
                   ELSE IF IsList(v) /\ v.kids # <<>> /\ IsDict(v.kids[1].v)
                   THEN Append(p1, KV(p \o Brackets, "obj_list"))
                           \o flatten_paths(v.kids[1].v, p \o Brackets)
                   ELSE p1
         IN FlattenItems(items, i + 1, parent, p2)
FlattenItems(items, i, parent, paths) ==
    IF i > Len(items) THEN paths
    ELSE LET k == items[i].k
             v == items[i].v
             p == IF parent # <<>> THEN parent \o <<".">> \o k ELSE k
             p1 == DictSet(paths, p, _type_name(v))
             p2 == IF IsDict(v) THEN DictUpdate(p1, flatten_paths(v, p))
                   ELSE IF IsList(v) /\ v.kids # <<>> /\ IsDict(v.kids[1].v)
                   THEN DictUpdate(DictSet(p1, p \o Brackets, "obj_list"),
                                   flatten_paths(v.kids[1].v, p \o Brackets))
                   ELSE p1
         IN FlattenItems(items, i + 1, parent, p2)

flatten_paths(d, parent) == FlattenItems(d.kids, 1, parent, <<>>)

TypeNames == {"null", "bool", "int", "float", "str", "list", "obj", "obj_list"}
EmptyCounter == [t \in TypeNames |-> 0]
CounterSum(c) == c["null"] + c["bool"] + c["int"] + c["float"] + c["str"]
                 + c["list"] + c["obj"] + c["obj_list"]
CounterLen(c) == Cardinality({t \in TypeNames : c[t] > 0})

\* path_types[p][t] += 1 for every item of fp
RECURSIVE CountPaths(_, _)
CountPaths(path_types, fp) ==
    IF fp = <<>> THEN path_types
    ELSE LET p == Head(fp).k
             t == Head(fp).v
             c == DictGet(path_types, p, EmptyCounter)
         IN CountPaths(DictSet(path_types, p, [c EXCEPT ![t] = c[t] + 1]), Tail(fp))

\* the first loop of analyze_batch
RECURSIVE PathTypes(_, _)
PathTypes(ds, path_types) ==
    IF ds = <<>> THEN path_types
    ELSE PathTypes(Tail(ds), CountPaths(path_types, flatten_paths(Head(ds), <<>>)))

RECURSIVE FSum(_, _)
FSum(d, acc) == IF d = <<>> THEN acc ELSE FSum(Tail(d), FAdd(acc, Head(d).v))

RECURSIVE ISum(_)
ISum(d) == IF d = <<>> THEN 0 ELSE Head(d).v + ISum(Tail(d))

OrOne(k) == IF k = 0 THEN 1 ELSE k

Threshold == FDivInt(FromInt(15), 100)      \* the literal 0.15
CommonRatio == FDivInt(FromInt(8), 10)      \* the literal 0.8

NoAnalysis ==
    [status |-> "none", exc |-> "", decision |-> "", common_paths |-> {},
     optionality |-> <<>>, type_variability |-> <<>>, relations |-> <<>>,
     path_types |-> <<>>, stability_score |-> FZero]

StabilityScoreUnscaled(ncommon, npaths, tvsum, optsum, nopt) ==
    FSub(FSub(FDivInt(FromInt(ncommon), OrOne(npaths)),
              FDivInt(FromInt(tvsum), OrOne(npaths))),
         FDivInt(optsum, OrOne(nopt)))
StabilityScore(ncommon, npaths, tvsum, optsum, nopt) ==
    FSub(FSub(FDivInt(FromInt(ncommon), OrOne(npaths)),
              FDivInt(FromInt(tvsum), 10 * OrOne(npaths))),
         FDivInt(optsum, OrOne(nopt)))

DecideByScoreOnly(stability_score, relations) ==
    IF FGe(stability_score, Threshold) THEN "SQL" ELSE "DOC"

Decide(stability_score, relations) ==
    IF FGe(stability_score, Threshold) \/ Len(relations) > 0 THEN "SQL" ELSE "DOC"

analyze_batch(ds) ==
    IF \E i \in 1..Len(ds) : ~IsDict(ds[i])
    THEN [NoAnalysis EXCEPT !.status = "raised", !.exc = "AttributeError"]
    ELSE
    LET path_types == PathTypes(ds, <<>>)
        total == Len(ds)
        ratio(c) == FDivInt(FromInt(CounterSum(c)), total)
        common_paths == {path_types[i].k : i \in
                            {j \in 1..Len(path_types) :
                                FGe(ratio(path_types[j].v), CommonRatio)}}
        optionality == [i \in 1..Len(path_types) |->
                           KV(path_types[i].k,
                              FSub(FromInt(1), ratio(path_types[i].v)))]
        type_variability == [i \in 1..Len(path_types) |->
                                KV(path_types[i].k, CounterLen(path_types[i].v))]
        relations == SelectSeq(DictKeys(path_types), EndsWithBrackets)
        stability_score == StabilityScore(Cardinality(common_paths), Len(path_types),
                                          ISum(type_variability),
                                          FSum(optionality, FZero), Len(optionality))
    IN [status |-> "ok", exc |-> "",
        decision |-> Decide(stability_score, relations),
        common_paths |-> common_paths,
        optionality |-> optionality,
        type_variability |-> type_variability,
        relations |-> relations,
        path_types |-> path_types,
        stability_score |-> stability_score]

(***************************************************************************)
(* JSON text.  json.dumps writes ", " and ": " between items; SQLite's     *)
(* json() writes the minified form.  json.loads and SQLite's JSON          *)
(* functions parse either.                                                 *)
(***************************************************************************)
Digits == <<"0", "1", "2", "3", "4", "5", "6", "7", "8", "9">>
IsDigit(c) == \E d \in 1..10 : Digits[d] = c
DigitVal(c) == (CHOOSE d \in 1..10 : Digits[d] = c) - 1

RECURSIVE NatChars(_)
NatChars(k) == IF k < 10 THEN <<Digits[k + 1]>> ELSE Append(NatChars(k \div 10), Digits[(k % 10) + 1])

IntChars(k) == IF k < 0 THEN <<"-">> \o NatChars(-k) ELSE NatChars(k)

\* repr of the float h / 2
FloatChars(h) ==
    LET a == IF h < 0 THEN -h ELSE h
    IN (IF h < 0 THEN <<"-">> ELSE <<>>) \o NatChars(a \div 2)
       \o <<".", IF a % 2 = 1 THEN "5" ELSE "0">>

RECURSIVE EscapeChars(_)
EscapeChars(cs) ==
    IF cs = <<>> THEN <<>>
    ELSE (IF Head(cs) \in {"\"", "\\"} THEN <<"\\", Head(cs)>> ELSE <<Head(cs)>>)
         \o EscapeChars(Tail(cs))

Quoted(cs) == <<"\"">> \o EscapeChars(cs) \o <<"\"">>

RECURSIVE JsonText(_, _)
RECURSIVE JsonItems(_, _, _, _)
JsonItems(kids, i, isObj, spaced) ==
    IF i > Len(kids) THEN <<>>
    ELSE (IF i > 1 THEN (IF spaced THEN <<",", " ">> ELSE <<",">>) ELSE <<>>)
         \o (IF isObj THEN Quoted(kids[i].k) \o (IF spaced THEN <<":", " ">> ELSE <<":">>)
             ELSE <<>>)
         \o JsonText(kids[i].v, spaced)
         \o JsonItems(kids, i + 1, isObj, spaced)

JsonText(v, spaced) ==
    CASE v.t = "null" -> <<"n", "u", "l", "l">>
      [] v.t = "bool" -> IF v.n = 1 THEN <<"t", "r", "u", "e">> ELSE <<"f", "a", "l", "s", "e">>
      [] v.t = "int" -> IntChars(v.n)
      [] v.t = "float" -> FloatChars(v.n)
      [] v.t = "str" -> Quoted(v.s)
      [] v.t = "list" -> <<"[">> \o JsonItems(v.kids, 1, FALSE, spaced) \o <<"]">>
      [] v.t = "obj" -> <<"{">> \o JsonItems(v.kids, 1, TRUE, spaced) \o <<"}">>

json_dumps(obj) == JsonText(obj, TRUE)

RECURSIVE SkipWs(_, _)
SkipWs(s, i) == IF i <= Len(s) /\ s[i] = " " THEN SkipWs(s, i + 1) ELSE i

\* the characters of a string literal whose opening quote is before i
RECURSIVE ParseChars(_, _, _)
ParseChars(s, i, acc) ==
    IF s[i] = "\"" THEN [v |-> acc, j |-> i + 1]
    ELSE IF s[i] = "\\" THEN ParseChars(s, i + 2, Append(acc, s[i + 1]))
    ELSE ParseChars(s, i + 1, Append(acc, s[i]))

RECURSIVE ParseNat(_, _, _)
ParseNat(s, i, acc) ==
    IF i <= Len(s) /\ IsDigit(s[i]) THEN ParseNat(s, i + 1, 10 * acc + DigitVal(s[i]))
    ELSE [v |-> acc, j |-> i]

ParseNumber(s, i) ==
    LET neg == s[i] = "-"
        whole == ParseNat(s, IF neg THEN i + 1 ELSE i, 0)
        sign == IF neg THEN -1 ELSE 1
    IN IF whole.j <= Len(s) /\ s[whole.j] = "."
       THEN [v |-> VFloat(sign * (2 * whole.v + (IF s[whole.j + 1] = "5" THEN 1 ELSE 0))),
             j |-> whole.j + 2]
       ELSE [v |-> VInt(sign * whole.v), j |-> whole.j]

RECURSIVE ParseValue(_, _)
RECURSIVE ParseItems(_, _, _, _, _)
\* the items up to the closing bracket; i is at an item or at the bracket
ParseItems(s, i0, isObj, close, acc) ==
    LET i == SkipWs(s, i0)
    IN IF s[i] = close THEN [v |-> acc, j |-> i + 1]
       ELSE IF s[i] = "," THEN ParseItems(s, i + 1, isObj, close, acc)
       ELSE IF isObj
       THEN LET key == ParseChars(s, i + 1, <<>>)
                colon == SkipWs(s, key.j)
                val == ParseValue(s, colon + 1)
            IN ParseItems(s, val.j, isObj, close, DictSet(acc, key.v, val.v))
       ELSE LET val == ParseValue(s, i)
            IN ParseItems(s, val.j, isObj, close, Append(acc, KV(<<>>, val.v)))

ParseValue(s, i0) ==
    LET i == SkipWs(s, i0)
        c == s[i]
    IN CASE c = "n" -> [v |-> VNull, j |-> i + 4]
         [] c = "t" -> [v |-> VBool(TRUE), j |-> i + 4]
         [] c = "f" -> [v |-> VBool(FALSE), j |-> i + 5]
         [] c = "\"" -> LET r == ParseChars(s, i + 1, <<>>) IN [v |-> VStr(r.v), j |-> r.j]
         [] c = "[" -> LET r == ParseItems(s, i + 1, FALSE, "]", <<>>)
                       IN [v |-> [VNull EXCEPT !.t = "list", !.kids = r.v], j |-> r.j]
         [] c = "{" -> LET r == ParseItems(s, i + 1, TRUE, "}", <<>>)
                       IN [v |-> VObj(r.v), j |-> r.j]
         [] OTHER -> ParseNumber(s, i)

json_loads(s) == ParseValue(s, 1).v

\* SQLite json(X): the minified text of X
sqlite_json(s) == JsonText(json_loads(s), FALSE)

TopTable == <<"i", "t", "e", "m", "s">>

propose_sql_model(a) ==
    LET pt == a.path_types
        IsRoot(i) == pt[i].v["obj_list"] > 0
        IsTop(i) == ~IsRoot(i) /\ ~Contains(pt[i].k, ".") /\ ~EndsWithBrackets(pt[i].k)
        idx == [i \in 1..Len(pt) |-> i]
        roots == SelectSeq(idx, IsRoot)
        tops == SelectSeq(idx, IsTop)
    IN [top_table |-> TopTable,
        top_cols |-> [j \in 1..Len(tops) |-> Replace(pt[tops[j]].k, <<".">>, <<"_">>)],
        child_tables |-> [j \in 1..Len(roots) |->
            LET child_root == Replace(pt[roots[j]].k, Brackets, <<>>)
            IN [name |-> Replace(child_root, <<".">>, <<"_">>), root_path |-> child_root]]]

\* nothing proposed yet
NoProposal == [top_table |-> <<>>, top_cols |-> <<>>, child_tables |-> <<>>]

(***************************************************************************)
(* sql_store.py.  A table of the metadata is the set of its column names;  *)
(* a table of the database is [cols, rows], a row is [id, vals] with vals  *)
(* the dict column -> value that was bound.  The JSON column _raw holds    *)
(* the JSON text of the value.                                             *)
(***************************************************************************)
ColId == <<"i", "d">>
ColParentId == <<"p", "a", "r", "e", "n", "t", "_", "i", "d">>
ColRaw == <<"_", "r", "a", "w">>

\* the walk shared by _extract_first and _get_by_path; None is VNull
RECURSIVE WalkPath(_, _, _)
WalkPath(cur, parts, i) ==
    IF i > Len(parts) THEN [found |-> TRUE, v |-> cur]
    ELSE IF IsDict(cur) THEN WalkPath(DictGet(cur.kids, parts[i], VNull), parts, i + 1)
    ELSE [found |-> FALSE, v |-> VNull]

_extract_first(root_path, doc) ==
    LET w == WalkPath(doc, Split(root_path, "."), 1)
    IN IF w.found /\ IsList(w.v) /\ w.v.kids # <<>> /\ IsDict(w.v.kids[1].v)
       THEN w.v.kids[1].v
       ELSE VNull

_get_by_path(doc, path) == WalkPath(doc, Split(path, "."), 1).v

SeqToSet(q) == {q[i] : i \in 1..Len(q)}

\* tables are kept by name: a function from the names to the tables
NoTables == <<>>
HasTable(tables, name) == name \in DOMAIN tables
PutTable(tables, name, tbl) ==
    [x \in (DOMAIN tables) \cup {name} |-> IF x = name THEN tbl ELSE tables[x]]
ColumnsOf(meta, name) == IF HasTable(meta, name) THEN meta[name] ELSE {}
Stored(db, name) == IF HasTable(db, name) THEN db[name] ELSE [cols |-> {}, rows |-> <<>>]

\* __init__: self.meta = MetaData(), whatever the database file at path holds
SQLStoreReflecting(db) == [x \in DOMAIN db |-> db[x].cols]
SQLStore(db) == NoTables

\* Table(name, self.meta, *cols, extend_existing=True)
DefineTable(meta, name, cols) == PutTable(meta, name, ColumnsOf(meta, name) \cup cols)

RECURSIVE DefineChildren(_, _, _, _)
DefineChildren(meta, model, sample_doc, i) ==
    IF i > Len(model.child_tables) THEN meta
    ELSE LET child == model.child_tables[i]
             first == _extract_first(child.root_path, sample_doc)
             child_sample == IF IsDict(first) THEN first.kids ELSE <<>>
             cols == {ColId, ColParentId, ColRaw}
                     \cup {Replace(child_sample[j].k, <<".">>, <<"_">>) :
                              j \in 1..Len(child_sample)}
         IN DefineChildren(DefineTable(meta, child.name, cols), model, sample_doc, i + 1)

\* self.meta.create_all(self.engine): creates the tables the database lacks
create_all(meta, db) ==
    [x \in (DOMAIN db) \cup (DOMAIN meta) |->
        IF HasTable(db, x) THEN db[x] ELSE [cols |-> meta[x], rows |-> <<>>]]

ensure_schema(meta, db, model, sample_doc) ==
    IF model.top_cols # <<>> /\ ~IsDict(sample_doc)
    THEN [meta |-> meta, db |-> db, exc |-> "AttributeError"]
    ELSE LET top == DefineTable(meta, model.top_table,
                                {ColId, ColRaw} \cup SeqToSet(model.top_cols))
             meta1 == DefineChildren(top, model, sample_doc, 1)
         IN [meta |-> meta1, db |-> create_all(meta1, db), exc |-> ""]

IsContainer(v) == IsDict(v) \/ IsList(v)

NextId(rows) ==
    IF rows = <<>> THEN 1
    ELSE 1 + CHOOSE m \in {rows[i].id : i \in 1..Len(rows)} :
                 \A i \in 1..Len(rows) : rows[i].id <= m

\* what is stored for the value bound to column c
Bound(c, v) == IF c = ColRaw THEN VStr(json_dumps(v)) ELSE v

\* session.execute(table.insert().values(**row)); st is the session:
\* db with the uncommitted rows, n statements executed, the exception raised,
\* lastid the inserted primary key.  The backend refuses statement `fail`.
ExecInsert(st, meta, fail, tname, row) ==
    LET names == SeqToSet(DictKeys(row))
    IN IF st.n + 1 = fail THEN [st EXCEPT !.exc = "OperationalError"]
       ELSE IF ~(names \subseteq ColumnsOf(meta, tname))
       THEN [st EXCEPT !.exc = "CompileError"]
       ELSE IF ~HasTable(st.db, tname) \/ ~(names \subseteq Stored(st.db, tname).cols)
       THEN [st EXCEPT !.exc = "OperationalError"]
       ELSE IF \E i \in 1..Len(row) : row[i].k # ColRaw /\ IsContainer(row[i].v)
       THEN [st EXCEPT !.exc = "InterfaceError"]
       ELSE LET tbl == Stored(st.db, tname)
                id == NextId(tbl.rows)
                stored == [id |-> id,
                           vals |-> [i \in 1..Len(row) |-> KV(row[i].k, Bound(row[i].k, row[i].v))]]
            IN [st EXCEPT !.db = PutTable(st.db, tname,
                                          [tbl EXCEPT !.rows = Append(tbl.rows, stored)]),
                          !.n = st.n + 1,
                          !.lastid = id]

\* row = {c: doc.get(c) for c in top_cols}; row["_raw"] = doc
RECURSIVE TopCols(_, _, _, _)
TopCols(model, doc, i, row) ==
    IF i > Len(model.top_cols) THEN row
    ELSE TopCols(model, doc, i + 1,
                 DictSet(row, model.top_cols[i], DictGet(doc.kids, model.top_cols[i], VNull)))

TopRowColsOnly(model, doc) ==
    LET row == TopCols(model, doc, 1, <<>>)
    IN DictSet(row, ColRaw, VObj(row))

TopRow(model, doc) == DictSet(TopCols(model, doc, 1, <<>>), ColRaw, doc)

\* crow = {"parent_id": parent_id, "_raw": item}; crow[k.replace(".", "_")] = v
RECURSIVE ChildCols(_, _, _)
ChildCols(item, i, crow) ==
    IF i > Len(item.kids) THEN crow
    ELSE ChildCols(item, i + 1,
                   DictSet(crow, Replace(item.kids[i].k, <<".">>, <<"_">>), item.kids[i].v))

ChildRow(parent_id, item) ==
    ChildCols(item, 1, <<KV(ColParentId, VInt(parent_id)), KV(ColRaw, item)>>)

RECURSIVE InsertItems(_, _, _, _, _, _, _)
InsertItems(st, meta, fail, tname, data_list, parent_id, i) ==
    IF st.exc # "" \/ i > Len(data_list.kids) THEN st
    ELSE LET item == data_list.kids[i].v
         IN IF ~IsDict(item) THEN [st EXCEPT !.exc = "AttributeError"]
            ELSE InsertItems(ExecInsert(st, meta, fail, tname, ChildRow(parent_id, item)),
                             meta, fail, tname, data_list, parent_id, i + 1)

RECURSIVE InsertChildren(_, _, _, _, _, _, _)
InsertChildren(st, meta, fail, model, doc, parent_id, c) ==
    IF st.exc # "" \/ c > Len(model.child_tables) THEN st
    ELSE LET child == model.child_tables[c]
             data_list == _get_by_path(doc, child.root_path)
         IN IF ~HasTable(meta, child.name) THEN [st EXCEPT !.exc = "KeyError"]
            ELSE InsertChildren(IF IsList(data_list)
                                THEN InsertItems(st, meta, fail, child.name, data_list, parent_id, 1)
                                ELSE st,
                                meta, fail, model, doc, parent_id, c + 1)

RECURSIVE InsertDocs(_, _, _, _, _, _)
InsertDocs(st, meta, fail, model, ds, i) ==
    IF st.exc # "" \/ i > Len(ds) THEN st
    ELSE LET doc == ds[i]
             st1 == IF model.top_cols # <<>> /\ ~IsDict(doc)
                    THEN [st EXCEPT !.exc = "AttributeError"]
                    ELSE ExecInsert(st, meta, fail, model.top_table, TopRow(model, doc))
             st2 == InsertChildren(st1, meta, fail, model, doc, st1.lastid, 1)
         IN InsertDocs(IF st2.exc # "" THEN [st2 EXCEPT !.failDoc = i] ELSE st2,
                       meta, fail, model, ds, i + 1)

Session(db) == [db |-> db, n |-> 0, exc |-> "", lastid |-> 0, failDoc |-> 0]

\* the session as it is when the loop of insert ends or raises
RunInsert(meta, db, model, ds, fail) ==
    IF ~HasTable(meta, model.top_table) THEN [Session(db) EXCEPT !.exc = "KeyError"]
    ELSE InsertDocs(Session(db), meta, fail, model, ds, 1)

\* except Exception: session.rollback(); raise -- the exception that reaches
\* the caller is the one that was caught: its class, and no document index
Raised(st) == [class |-> st.exc, index |-> 0]

\* session.commit(), or session.rollback() and re-raise
CommitOrKeep(db, st) == st.db
CommitOrRollback(db, st) == IF st.exc = "" THEN st.db ELSE db

\* the last call: the operation, the callers whose model (m) and documents (d)
\* it was given, the exception or "ok", the document index the exception
\* carries (0: none), the statement the backend refused (0: none), the
\* document at which it stopped, the statements executed, the rows the top
\* table had before, and the callers whose ensure_schema has run
NoCall == [op |-> "none", m |-> 0, d |-> 0, outcome |-> "", named |-> 0, fail |-> 0,
           failDoc |-> 0, done |-> 0, before |-> 0, ensured |-> {}]

SqlIdle ==
    /\ sqlArgs = [batch |-> <<>>, proposed |-> TRUE]
    /\ sqlMeta = NoTables
    /\ sqlDb = NoTables
    /\ sqlLast = NoCall

(***************************************************************************)
(* doc_store.py.  The database is [documents, key_index]; a row of         *)
(* documents is [id, namespace, raw_json], a row of key_index is           *)
(* [doc_id, key, value_text].  Every call runs on the one connection       *)
(* self.conn, which sees its own uncommitted rows.                         *)
(***************************************************************************)
Namespaces == {<<"X">>, <<"Y">>}

\* _ensure_schema on a new file: the two tables, empty
NoDocuments == [documents |-> <<>>, key_index |-> <<>>]

\* str(v) of a str, an int (a bool is one) or a float
py_str(v) ==
    CASE v.t = "str" -> v.s
      [] v.t = "bool" -> IF v.n = 1 THEN <<"T", "r", "u", "e">> ELSE <<"F", "a", "l", "s", "e">>
      [] v.t = "int" -> IntChars(v.n)
      [] v.t = "float" -> FloatChars(v.n)

\* isinstance(v, (str, int, float))
IsIndexed(v) == v.t \in {"str", "bool", "int", "float"}

\* the cursor: db with the uncommitted rows, n statements executed, the
\* exception raised, lastrowid, the document at which the loop stopped
Cursor(conn) == [db |-> conn, n |-> 0, exc |-> "", lastid |-> 0, failDoc |-> 0]

\* INSERT INTO documents(namespace, raw_json) VALUES(?, json(?))
ExecDocument(st, fail, namespace, doc) ==
    IF st.n + 1 = fail THEN [st EXCEPT !.exc = "OperationalError"]
    ELSE LET id == NextId(st.db.documents)
         IN [st EXCEPT !.db.documents =
                           Append(@, [id |-> id, namespace |-> namespace,
                                      raw_json |-> sqlite_json(json_dumps(doc))]),
                       !.n = @ + 1,
                       !.lastid = id]

\* INSERT INTO key_index(doc_id, key, value_text) VALUES(?, ?, ?)
ExecKeyIndex(st, fail, doc_id, k, v) ==
    IF st.n + 1 = fail THEN [st EXCEPT !.exc = "OperationalError"]
    ELSE [st EXCEPT !.db.key_index =
                        Append(@, [doc_id |-> doc_id, key |-> k, value_text |-> py_str(v)]),
                    !.n = @ + 1]

\* for k, v in doc.items(): index the strings and the numbers
RECURSIVE IndexItems(_, _, _, _, _)
IndexItems(st, fail, doc_id, items, i) ==
    IF st.exc # "" \/ i > Len(items) THEN st
    ELSE IndexItems(IF IsIndexed(items[i].v)
                    THEN ExecKeyIndex(st, fail, doc_id, items[i].k, items[i].v)
                    ELSE st,
                    fail, doc_id, items, i + 1)

\* for doc in docs
RECURSIVE InsertDocuments(_, _, _, _, _)
InsertDocuments(st, fail, namespace, ds, i) ==
    IF st.exc # "" \/ i > Len(ds) THEN st
    ELSE LET st1 == ExecDocument(st, fail, namespace, ds[i])
             st2 == IF st1.exc # "" THEN st1
                    ELSE IF ~IsDict(ds[i]) THEN [st1 EXCEPT !.exc = "AttributeError"]
                    ELSE IndexItems(st1, fail, st1.lastid, ds[i].kids, 1)
         IN InsertDocuments(IF st2.exc # "" THEN [st2 EXCEPT !.failDoc = i] ELSE st2,
                            fail, namespace, ds, i + 1)

\* the cursor as it is when the loop of insert ends or raises
RunDocInsert(conn, ds, namespace, fail) == InsertDocuments(Cursor(conn), fail, namespace, ds, 1)

\* self.conn.commit() after the loop; an exception leaves the method before it
CommitAfterLoop(db, st) == IF st.exc = "" THEN st.db ELSE db

\* the SQL value json_extract gives for a JSON value: true and false are
\* 1 and 0, an object or an array is its minified text
SqlValue(v) ==
    CASE v.t = "bool" -> VInt(v.n)
      [] v.t \in {"list", "obj"} -> VStr(JsonText(v, FALSE))
      [] OTHER -> v

RECURSIVE JsonWalk(_, _, _)
JsonWalk(cur, parts, i) ==
    IF i > Len(parts) THEN SqlValue(cur)
    ELSE IF IsDict(cur) /\ DictHas(cur.kids, parts[i])
    THEN JsonWalk(DictGet(cur.kids, parts[i], VNull), parts, i + 1)
    ELSE VNull

\* f"$.{k}"
JsonPath(k) == <<"$", ".">> \o k

\* json_extract(raw_json, path) for a path $.a.b: NULL when the path is
\* not in the document
json_extract(raw_json, path) ==
    JsonWalk(json_loads(raw_json), Split(SubSeq(path, 3, Len(path)), "."), 1)

\* the SQL value sqlite3 binds for a Python value
BindValue(v) == IF v.t = "bool" THEN VInt(v.n) ELSE v

\* x = y as a condition of WHERE: never true of NULL, numeric between
\* INTEGER and REAL, never true between a number and a TEXT
SqlEquals(x, y) ==
    IF x.t = "null" \/ y.t = "null" THEN FALSE
    ELSE IF x.t = "str" \/ y.t = "str" THEN x.t = y.t /\ x.s = y.s
    ELSE (IF x.t = "float" THEN x.n ELSE 2 * x.n) = (IF y.t = "float" THEN y.n ELSE 2 * y.n)

\* ... AND json_extract(raw_json, ?) = ? for every filter
MatchesFilters(row, filters) ==
    \A i \in 1..Len(filters) :
        SqlEquals(json_extract(row.raw_json, JsonPath(filters[i].k)), BindValue(filters[i].v))

\* SELECT id, raw_json FROM documents WHERE namespace=? AND ...; filters is
\* the dict as items
QueryAnyNamespace(conn, namespace, filters) ==
    [exc |-> "", rows |-> [i \in 1..Len(conn.documents) |->
                              [id |-> conn.documents[i].id, json |-> conn.documents[i].raw_json]]]

query(conn, namespace, filters) ==
    IF \E i \in 1..Len(filters) : IsContainer(filters[i].v)
    THEN [exc |-> "ProgrammingError", rows |-> <<>>]
    ELSE LET Selected(row) == row.namespace = namespace /\ MatchesFilters(row, filters)
             hits == SelectSeq(conn.documents, Selected)
         IN [exc |-> "",
             rows |-> [i \in 1..Len(hits) |-> [id |-> hits[i].id, json |-> hits[i].raw_json]]]

\* the last call: the operation, its arguments, the exception or "ok", the
\* rows query returned, the statement the backend refused (0: none), the
\* document at which insert stopped, the committed documents before the call
NoDocCall == [op |-> "none", namespace |-> <<>>, docs |-> <<>>, filters |-> <<>>,
              outcome |-> "", result |-> <<>>, fail |-> 0, failDoc |-> 0, before |-> 0]

DocIdle ==
    /\ docDb = NoDocuments
    /\ docConn = NoDocuments
    /\ docLast = NoDocCall
    /\ docHist = [given |-> [ns \in Namespaces |-> 0], raised |-> FALSE]

(***************************************************************************)
(* models/registry.py.  self.schemas is a dict name -> schema, the items   *)
(* in insertion order; self.snapshots is the list of the records           *)
(* {ts, name, schema, notes}.  A schema is a JSON value; register stores   *)
(* the object it is given and no operation of the registry, the router or  *)
(* the retriever writes into a schema, so an object is the value it holds. *)
(* time.time() is a clock reading: it never decreases between two calls    *)
(* and may stay the same.                                                  *)
(***************************************************************************)
NoSchemas == [schemas |-> <<>>, snapshots |-> <<>>]

Snapshot(ts, name, schema, notes) ==
    [ts |-> ts, name |-> name, schema |-> schema, notes |-> notes]

\* the readings time.time() can give after the last record was written
Now(reg) ==
    LET last == IF reg.snapshots = <<>> THEN 0 ELSE reg.snapshots[Len(reg.snapshots)].ts
    IN {last, last + 1}

RegisterFirstWins(reg, name, schema, notes, ts) ==
    [schemas |-> IF DictHas(reg.schemas, name) THEN reg.schemas
                 ELSE DictSet(reg.schemas, name, schema),
     snapshots |-> Append(reg.snapshots, Snapshot(ts, name, schema, notes))]
register(reg, name, schema, notes, ts) ==
    [schemas |-> DictSet(reg.schemas, name, schema),
     snapshots |-> Append(reg.snapshots, Snapshot(ts, name, schema, notes))]

\* list(self.schemas.items())
list(reg) == reg.schemas

\* self.schemas.get(name): None when the name is missing
get(reg, name) == DictGet(reg.schemas, name, VNull)

HistoryNewestFirst(reg, name) ==
    LET hits == SelectSeq(reg.snapshots, LAMBDA s : s.name = name)
    IN [i \in 1..Len(hits) |-> hits[Len(hits) + 1 - i]]
history(reg, name) == SelectSeq(reg.snapshots, LAMBDA s : s.name = name)

\* the last call of the registry or of the router: the operation, its
\* arguments, and what it returned or raised
NoRegCall == [op |-> "none", name |-> <<>>, arg |-> VNull, outcome |-> "", result |-> <<>>]

RegIdle ==
    /\ registry = NoSchemas
    /\ regCalls = <<>>
    /\ regLast = NoRegCall

(***************************************************************************)
(* rag/retriever.py.  TfidfVectorizer(ngram_range=(1,2)) lowercases the    *)
(* text, takes the runs of two or more word characters as tokens and       *)
(* counts every token and every pair of adjacent tokens; fitting gives     *)
(* every term the weight idf = ln((1 + n) / (1 + df)) + 1, n the number    *)
(* of documents and df the number of them holding the term.  A row of the  *)
(* matrix is the vector tf * idf of a document over the vocabulary.        *)
(* Numbers are fixed-point: idf in hundredths, a cosine in thousandths,    *)
(* rounded up, so that a cosine is zero exactly when the two vectors       *)
(* share no term.  The l2 normalisation of the rows does not change a      *)
(* cosine and is left to it.                                               *)
(***************************************************************************)
UpperCase == <<"A", "B", "C", "D", "E", "F", "G", "H", "I", "J", "K", "L", "M", "N", "O", "P", "Q", "R", "S", "T", "U", "V", "W", "X", "Y", "Z">>
LowerCase == <<"a", "b", "c", "d", "e", "f", "g", "h", "i", "j", "k", "l", "m", "n", "o", "p", "q", "r", "s", "t", "u", "v", "w", "x", "y", "z">>
IsUpper(c) == \E i \in 1..26 : UpperCase[i] = c
ToLower(c) == IF IsUpper(c) THEN LowerCase[CHOOSE i \in 1..26 : UpperCase[i] = c] ELSE c
\* \w
IsWordChar(c) == IsUpper(c) \/ (\E i \in 1..26 : LowerCase[i] = c) \/ IsDigit(c) \/ c = "_"

\* findall(r"\b\w\w+\b", text.lower()): the runs of word characters, those of
\* one character left out, in the order of the text
Tokens(text) ==
    LET lower == [i \in 1..Len(text) |-> ToLower(text[i])] @@ <<>>
        word == {i \in 1..Len(text) : IsWordChar(text[i])}
        EndOf(i) == CHOOSE j \in i..Len(text) :
                        /\ \A k \in i..j : k \in word
                        /\ (j + 1) \notin word
        starts == {i \in word : (i - 1) \notin word /\ EndOf(i) > i}
        Nth(k) == CHOOSE i \in starts : Cardinality({x \in starts : x < i}) = k - 1
    IN [k \in 1..Cardinality(starts) |-> SubSeq(lower, Nth(k), EndOf(Nth(k)))] @@ <<>>

\* the 1-grams, then the 2-grams, the two tokens joined by a space
Terms(text) ==
    LET ts == Tokens(text)
    IN ts \o [i \in 1..(Len(ts) - 1) |-> ts[i] \o <<" ">> \o ts[i + 1]]

TermCount(terms, t) == Cardinality({i \in 1..Len(terms) : terms[i] = t})

\* ln(p / q) in 1/10000, p >= q > 0, by the series of 2 * atanh((p - q) / (p + q))
LnScale == 10000
LnRatio(p, q) ==
    LET z == ((p - q) * LnScale) \div (p + q)
        z2 == (z * z) \div LnScale
        z3 == (z * z2) \div LnScale
        z5 == (z3 * z2) \div LnScale
        z7 == (z5 * z2) \div LnScale
        z9 == (z7 * z2) \div LnScale
    IN 2 * (z + z3 \div 3 + z5 \div 5 + z7 \div 7 + z9 \div 9)

\* idf of a term held by df of n documents, in hundredths
Idf(n, df) == (LnRatio(1 + n, 1 + df) + LnScale + 50) \div 100

\* the largest r with r * r <= k, by Newton's iteration from above
RECURSIVE ISqrtFrom(_, _)
ISqrtFrom(k, r) ==
    LET next == (r + k \div r) \div 2
    IN IF next >= r THEN r ELSE ISqrtFrom(k, next)
ISqrt(k) == IF k = 0 THEN 0 ELSE ISqrtFrom(k, k)

\* the sum of f[lo], ..., f[hi]
RECURSIVE SumRange(_, _, _)
SumRange(f, lo, hi) ==
    IF lo > hi THEN 0
    ELSE IF lo = hi THEN f[lo]
    ELSE SumRange(f, lo, (lo + hi) \div 2) + SumRange(f, (lo + hi) \div 2 + 1, hi)
Sum(f) == SumRange(f, 1, Len(f))

\* the elements of seq without the repetitions, in the order they first occur
Distinct(seq) ==
    LET first == {i \in 1..Len(seq) : \A j \in 1..(i - 1) : seq[j] # seq[i]}
        rank == [i \in first |-> Cardinality({x \in first : x <= i})] @@ <<>>
    IN [k \in 1..Cardinality(first) |-> seq[CHOOSE i \in first : rank[i] = k]] @@ <<>>

Unfitted == [fitted |-> FALSE, vocabulary |-> <<>>, idf |-> <<>>]
NoMatrix == [none |-> TRUE, rows |-> <<>>]

\* SchemaRetriever()
NewRetriever == [names |-> <<>>, docs |-> <<>>, vectorizer |-> Unfitted, matrix |-> NoMatrix]

\* f"{v}" of a schema entry that is a str
TextOf(d, key) == py_str(DictGet(d.kids, key, VStr(<<>>)))
StrsOf(d, key) ==
    LET l == DictGet(d.kids, key, VList(<<>>)).kids
    IN [i \in 1..Len(l) |-> py_str(l[i].v)]

schema_to_text(name, schema, notes) ==
    LET cts == DictGet(schema.kids, <<"c", "h", "i", "l", "d", "_", "t", "a", "b", "l", "e", "s">>, VList(<<>>)).kids
        parts ==
            <<<<"n", "a", "m", "e", ":", " ">> \o name, notes>>
            \o (IF DictHas(schema.kids, <<"t", "o", "p", "_", "t", "a", "b", "l", "e">>)
                THEN <<<<"t", "o", "p", "_", "t", "a", "b", "l", "e", ":", " ">> \o TextOf(schema, <<"t", "o", "p", "_", "t", "a", "b", "l", "e">>),
                       <<"t", "o", "p", "_", "c", "o", "l", "s", ":", " ">> \o Join(<<" ">>, StrsOf(schema, <<"t", "o", "p", "_", "c", "o", "l", "s">>))>>
                     \o [i \in 1..Len(cts) |->
                            <<"c", "h", "i", "l", "d", "_", "t", "a", "b", "l", "e", ":", " ">> \o TextOf(cts[i].v, <<"n", "a", "m", "e">>)
                            \o <<" ", "r", "o", "o", "t", ":", " ">> \o TextOf(cts[i].v, <<"r", "o", "o", "t", "_", "p", "a", "t", "h">>)]
                ELSE <<<<"p", "a", "t", "h", "s", ":", " ">> \o Join(<<" ">>, StrsOf(schema, <<"p", "a", "t", "h", "s">>))>>)
    IN Join(<<"\n">>, parts)

\* vectorizer.fit(docs): the vocabulary, one column per term, and the idf of
\* every column.  The columns are in the order the terms first occur; their
\* order changes no cosine.
Fit(texts) ==
    LET terms == [i \in 1..Len(texts) |-> Terms(texts[i])] @@ <<>>
        held == [i \in 1..Len(texts) |-> SeqToSet(terms[i])] @@ <<>>
        vocabulary == Distinct(Join(<<>>, terms))
    IN [fitted |-> TRUE,
        vocabulary |-> vocabulary,
        idf |-> [k \in 1..Len(vocabulary) |->
                    Idf(Len(texts),
                        Cardinality({i \in 1..Len(texts) : vocabulary[k] \in held[i]}))]
                @@ <<>>]

\* a row of vectorizer.transform: tf * idf of every column
Transform(vectorizer, text) ==
    LET terms == Terms(text)
    IN [k \in 1..Len(vectorizer.vocabulary) |->
           TermCount(terms, vectorizer.vocabulary[k]) * vectorizer.idf[k]] @@ <<>>

\* vectorizer.fit_transform(docs)
FitTransform(texts) ==
    LET vectorizer == Fit(texts)
    IN [vectorizer |-> vectorizer,
        matrix |-> [none |-> FALSE,
                    rows |-> [i \in 1..Len(texts) |-> Transform(vectorizer, texts[i])] @@ <<>>]]

\* cosine_similarity of two rows of the same length, in thousandths
Cosine(q, row) ==
    LET dot == Sum([k \in 1..Len(q) |-> q[k] * row[k]])
        nq == ISqrt(Sum([k \in 1..Len(q) |-> q[k] * q[k]]))
        nr == ISqrt(Sum([k \in 1..Len(row) |-> row[k] * row[k]]))
    IN IF dot = 0 THEN 0
       ELSE Min(1000, (((dot * 100) \div nq) * 10 + nr - 1) \div nr)

\* the (name, notes) pairs of notes_map; None is the empty map
NoNotesMap == <<>>

\* the loop of build over registry.list()
IndexedNames(items) == [i \in 1..Len(items) |-> items[i].k]
IndexedDocs(items, notes_map) ==
    [i \in 1..Len(items) |->
        schema_to_text(items[i].k, items[i].v, DictGet(notes_map, items[i].k, <<>>))] @@ <<>>

BuildAppending(ret, reg, notes_map) ==
    LET items == list(reg)
        names == ret.names \o IndexedNames(items)
        texts == ret.docs \o IndexedDocs(items, notes_map)
        fitted == FitTransform(texts)
    IN IF texts = <<>> THEN [ret EXCEPT !.names = names, !.docs = texts]
       ELSE [names |-> names, docs |-> texts,
             vectorizer |-> fitted.vectorizer, matrix |-> fitted.matrix]
build(ret, reg, notes_map) ==
    LET items == list(reg)
        names == IndexedNames(items)
        texts == IndexedDocs(items, notes_map)
        fitted == FitTransform(texts)
    IN IF texts = <<>> THEN [ret EXCEPT !.names = names, !.docs = texts]
       ELSE [names |-> names, docs |-> texts,
             vectorizer |-> fitted.vectorizer, matrix |-> fitted.matrix]

\* zip(names, sims): as long as the shorter of the two
Zip(names, sims) ==
    [i \in 1..Min(Len(names), Len(sims)) |-> [name |-> names[i], score |-> sims[i]]]

\* sorted(pairs, key=score, reverse=True): stable, so that pairs of equal
\* score keep their order
RECURSIVE InsertRanked(_, _)
InsertBeforeEqual(sorted, p) ==
    IF sorted = <<>> THEN <<p>>
    ELSE IF Head(sorted).score > p.score THEN <<Head(sorted)>> \o InsertRanked(Tail(sorted), p)
    ELSE <<p>> \o sorted
InsertRanked(sorted, p) ==
    IF sorted = <<>> THEN <<p>>
    ELSE IF Head(sorted).score >= p.score THEN <<Head(sorted)>> \o InsertRanked(Tail(sorted), p)
    ELSE <<p>> \o sorted
RECURSIVE SortedFrom(_, _, _)
SortedFrom(pairs, i, sorted) ==
    IF i > Len(pairs) THEN sorted
    ELSE SortedFrom(pairs, i + 1, InsertRanked(sorted, pairs[i]))
Sorted(pairs) == SortedFrom(pairs, 1, <<>>)

\* seq[:k]
SliceAll(seq, k) == seq
SliceTo(seq, k) ==
    IF k >= 0 THEN SubSeq(seq, 1, Min(k, Len(seq)))
    ELSE SubSeq(seq, 1, Max(0, Len(seq) + k))

\* cosine_similarity(qv, matrix)[0]; the shapes must agree
Similarities(qv, matrix) ==
    [i \in 1..Len(matrix.rows) |-> Cosine(qv, matrix.rows[i])] @@ <<>>

search(ret, text, top_k) ==
    IF ret.docs = <<>> THEN [outcome |-> "ok", result |-> <<>>]
    ELSE IF ~ret.vectorizer.fitted THEN [outcome |-> "NotFittedError", result |-> <<>>]
    ELSE IF ret.matrix.none THEN [outcome |-> "ValueError", result |-> <<>>]
    ELSE IF \E i \in 1..Len(ret.matrix.rows) :
                Len(ret.matrix.rows[i]) # Len(ret.vectorizer.vocabulary)
         THEN [outcome |-> "ValueError", result |-> <<>>]
    ELSE [outcome |-> "ok",
          result |-> SliceTo(Sorted(Zip(ret.names,
                                        Similarities(Transform(ret.vectorizer, text),
                                                     ret.matrix))),
                             top_k)]

\* the last build: the register calls made before it, whether notes_map
\* was left out, and whether a build has run at all
NeverBuilt == [calls |-> 0, default |-> TRUE, ran |-> FALSE]

\* the last call of the retriever: the operation, its arguments, what it
\* returned or raised; built is the last build and stays
NoRetCall == [op |-> "none", text |-> <<>>, top_k |-> 0, outcome |-> "", result |-> <<>>,
              built |-> NeverBuilt]

RetIdle ==
    /\ retriever = NewRetriever
    /\ retLast = NoRetCall
    /\ procs = <<>>

RagIdle == RegIdle /\ RetIdle

(***************************************************************************)
(* Analyzer: the documents a batch is drawn from                           *)
(***************************************************************************)
Ka == <<"a">>
Kb == <<"b">>
Kc == <<"c">>
Kp == <<"p">>
Kr == <<"r">>
Ks == <<"s">>
Sx == <<"x">>

DocInt == VObj(<<KV(Ka, VInt(1))>>)                                \* {"a": 1}
DocStr == VObj(<<KV(Ka, VStr(Sx)), KV(Kb, VInt(2))>>)          \* {"a": "x", "b": 2}
DocRel == VObj(<<KV(Kp, VObj(<<KV(Kr,
               VList(<<VObj(<<KV(Ks, VInt(1))>>)>>))>>))>>)    \* {"p": {"r": [{"s": 1}]}}
DocMixed == VObj(<<KV(Ka, VNull),
                   KV(Kc, VList(<<VInt(1), VObj(<<KV(Ks, VInt(1))>>)>>))>>)
                                                               \* {"a": null, "c": [1, {"s": 1}]}
NotADoc == VInt(5)                                             \* 5

AnalyzerDocs == {DocInt, DocStr, DocRel, DocMixed, NotADoc}

RECURSIVE SeqsUpTo(_, _)
SeqsUpTo(S, k) ==
    IF k = 0 THEN {<<>>}
    ELSE LET shorter == SeqsUpTo(S, k - 1)
         IN shorter \cup {Append(q, x) : q \in {r \in shorter : Len(r) = k - 1}, x \in S}

AnalyzerInit ==
    /\ docs \in SeqsUpTo(AnalyzerDocs, MaxDocs)
    /\ analysis = NoAnalysis
    /\ proposal = NoProposal
    /\ SqlIdle
    /\ DocIdle
    /\ RagIdle

AnalyzeBatch ==
    /\ analysis.status = "none"
    /\ analysis' = analyze_batch(docs)
    /\ UNCHANGED <<docs, proposal>>
    /\ UNCHANGED <<sqlVars, docVars, ragVars>>

AnalyzerNext == AnalyzeBatch

SpecAnalyzer == AnalyzerInit /\ [][AnalyzerNext]_vars

(***************************************************************************)
(* SQLStore: two callers ingest, the first a batch and the second a single *)
(* document; every call takes the model of one of them and the documents   *)
(* of one of them.                                                         *)
(***************************************************************************)
Kn == <<"n">>
Ko == <<"o">>
Ki == <<"i">>
Kq == <<"q">>
Km == <<"m">>
Kk == <<"k">>

Order(sku) == VObj(<<KV(Ks, VInt(sku))>>)
\* {"n": "x", "o": [{"s": 1}]}
SqlAlice == VObj(<<KV(Kn, VStr(<<"x">>)), KV(Ko, VList(<<Order(1)>>))>>)
\* {"n": "y", "o": [{"s": 2}, {"s": 3}]}
SqlBob == VObj(<<KV(Kn, VStr(<<"y">>)), KV(Ko, VList(<<Order(2), Order(3)>>))>>)
\* {"n": "z", "o": [{"s": 1, "i": [{"q": 1}]}]}
SqlNested == VObj(<<KV(Kn, VStr(<<"z">>)),
                    KV(Ko, VList(<<VObj(<<KV(Ks, VInt(1)),
                                          KV(Ki, VList(<<VObj(<<KV(Kq, VInt(1))>>)>>))>>)>>))>>)
\* {"n": "v", "m": {"k": [1, 2]}}
SqlMap == VObj(<<KV(Kn, VStr(<<"v">>)),
                 KV(Km, VObj(<<KV(Kk, VList(<<VInt(1), VInt(2)>>))>>))>>)

\* {"n": "w", "q": 1}
SqlExtra == VObj(<<KV(Kn, VStr(<<"w">>)), KV(Kq, VInt(1))>>)

SqlDocs == <<SqlAlice, SqlBob, SqlNested, SqlMap, SqlExtra>>
SqlBatches == SeqsUpTo(1..Len(SqlDocs), MaxBatch) \ {<<>>}

\* a model written by hand for the same tables: the relation roots are child
\* tables only
ByHand(model) ==
    LET IsColumn(c) == \A i \in 1..Len(model.child_tables) : model.child_tables[i].root_path # c
    IN [model EXCEPT !.top_cols = SelectSeq(model.top_cols, IsColumn)]

\* what a caller holds: its documents and its model, the one proposed for the
\* documents or the one written by hand
Ingest(b, proposed) ==
    LET batch == [i \in 1..Len(b) |-> SqlDocs[b[i]]]
        model == propose_sql_model(analyze_batch(batch))
    IN [docs |-> batch, model |-> IF proposed THEN model ELSE ByHand(model)]

\* every batch with its model, worked out once
Ingests == [x \in SqlBatches \X BOOLEAN |-> Ingest(x[1], x[2])] @@ <<>>

\* the documents and the model of caller w
Caller(w) == Ingests[<<sqlArgs.batch[w], sqlArgs.proposed>>]

TopRows(db) == Stored(db, TopTable).rows

SqlInit ==
    /\ \E b1 \in SqlBatches, b2 \in {b \in SqlBatches : Len(b) = 1}, proposed \in BOOLEAN :
          sqlArgs = [batch |-> <<b1, b2>>, proposed |-> proposed]
    /\ sqlMeta = NoTables
    /\ sqlDb = NoTables
    /\ sqlLast = NoCall
    /\ docs = <<>>
    /\ analysis = NoAnalysis
    /\ proposal = NoProposal
    /\ DocIdle
    /\ RagIdle

\* store.ensure_schema(model, docs[0]) by caller w
SqlEnsureSchema(w) ==
    /\ sqlLast.op = "none"
    /\ \E c \in {Caller(w)} :
          \E r \in {ensure_schema(sqlMeta, sqlDb, c.model, c.docs[1])} :
             /\ sqlMeta' = r.meta
             /\ sqlDb' = r.db
             /\ sqlLast' = [NoCall EXCEPT !.op = "ensure_schema", !.m = w, !.d = w,
                                          !.outcome = IF r.exc = "" THEN "ok" ELSE r.exc,
                                          !.before = Len(TopRows(sqlDb)),
                                          !.ensured = sqlLast.ensured \cup {w}]
    /\ UNCHANGED <<sqlArgs, analyzerVars, docVars, ragVars>>

\* store.insert(model, docs) with the model of caller wm and the documents of
\* caller wd; the backend refuses statement `fail` (0: none)
SqlInsert(wm, wd) ==
    /\ sqlLast.op = "none"
    /\ \E c \in {[model |-> Caller(wm).model, docs |-> Caller(wd).docs]} :
          /\ Len(TopRows(sqlDb)) + Len(c.docs) <= MaxRows
          /\ \E fail \in 0..RunInsert(sqlMeta, sqlDb, c.model, c.docs, 0).n :
                \E st \in {RunInsert(sqlMeta, sqlDb, c.model, c.docs, fail)} :
                   /\ sqlDb' = CommitOrRollback(sqlDb, st)
                   /\ sqlLast' = [op |-> "insert", m |-> wm, d |-> wd,
                                  outcome |-> IF st.exc = "" THEN "ok" ELSE Raised(st).class,
                                  named |-> IF st.exc = "" THEN 0 ELSE Raised(st).index,
                                  fail |-> fail, failDoc |-> st.failDoc, done |-> st.n,
                                  before |-> Len(TopRows(sqlDb)), ensured |-> sqlLast.ensured]
    /\ UNCHANGED <<sqlArgs, sqlMeta, analyzerVars, docVars, ragVars>>

\* SQLStore(path) over the database file that exists: a new instance, whose
\* metadata is empty; no ensure_schema has run on it
SqlOpen ==
    /\ sqlLast.op = "none"
    /\ sqlMeta # NoTables
    /\ sqlMeta' = SQLStore(sqlDb)
    /\ sqlLast' = NoCall
    /\ UNCHANGED <<sqlArgs, sqlDb, analyzerVars, docVars, ragVars>>

\* the call has returned or raised: the caller has its outcome
SqlReturn ==
    /\ sqlLast.op # "none"
    /\ sqlLast' = [NoCall EXCEPT !.ensured = sqlLast.ensured]
    /\ UNCHANGED <<sqlArgs, sqlMeta, sqlDb, analyzerVars, docVars, ragVars>>

SqlNext ==
    \/ \E w \in 1..2 : SqlEnsureSchema(w)
    \/ \E wm \in 1..2, wd \in 1..2 : SqlInsert(wm, wd)
    \/ SqlOpen
    \/ SqlReturn

SpecSQL == SqlInit /\ [][SqlNext]_vars

(***************************************************************************)
(* DocStore: one store; insert takes a batch and a namespace, query a      *)
(* namespace and filters.                                                  *)
(***************************************************************************)
Kx == <<"x">>
Kcx == <<"c", ".", "x">>

\* {"a": null, "c": {"x": 1}}
DocNullMap == VObj(<<KV(Ka, VNull), KV(Kc, VObj(<<KV(Kx, VInt(1))>>))>>)
\* {"a": 1, "b": "x"}
DocScalars == VObj(<<KV(Ka, VInt(1)), KV(Kb, VStr(Sx))>>)

DocDocs == {DocNullMap, DocScalars}
DocBatches == SeqsUpTo(DocDocs, MaxDocBatch)

\* {}, {"a": None}, {"a": 1}, {"a": 1, "b": "x"}, {"c.x": 1},
\* {"c": '{"x":1}'}, {"c": {"x": 1}}
DocFilters ==
    { <<>>,
      <<KV(Ka, VNull)>>,
      <<KV(Ka, VInt(1))>>,
      <<KV(Ka, VInt(1)), KV(Kb, VStr(Sx))>>,
      <<KV(Kcx, VInt(1))>>,
      <<KV(Kc, VStr(<<"{", "\"", "x", "\"", ":", "1", "}">>))>>,
      <<KV(Kc, VObj(<<KV(Kx, VInt(1))>>))>> }

DocInit ==
    /\ DocIdle
    /\ SqlIdle
    /\ RagIdle
    /\ docs = <<>>
    /\ analysis = NoAnalysis
    /\ proposal = NoProposal

\* store.insert(ds, namespace); the backend refuses statement `fail` (0: none)
DocInsert(ds, namespace) ==
    /\ docLast.op = "none"
    /\ Len(docConn.documents) + Len(ds) <= MaxDocRows
    /\ \E fail \in 0..RunDocInsert(docConn, ds, namespace, 0).n :
          \E st \in {RunDocInsert(docConn, ds, namespace, fail)} :
             /\ docDb' = CommitAfterLoop(docDb, st)
             /\ docConn' = st.db
             /\ docLast' = [NoDocCall EXCEPT !.op = "insert", !.namespace = namespace,
                                             !.docs = ds,
                                             !.outcome = IF st.exc = "" THEN "ok" ELSE st.exc,
                                             !.fail = fail, !.failDoc = st.failDoc,
                                             !.before = Len(docDb.documents)]
             /\ docHist' = IF st.exc = ""
                           THEN [docHist EXCEPT !.given[namespace] = @ + Len(ds)]
                           ELSE [docHist EXCEPT !.raised = TRUE]
    /\ UNCHANGED <<analyzerVars, sqlVars, ragVars>>

\* store.query(namespace, filters)
DocQuery(namespace, filters) ==
    /\ docLast.op = "none"
    /\ \E r \in {query(docConn, namespace, filters)} :
          /\ docLast' = [NoDocCall EXCEPT !.op = "query", !.namespace = namespace,
                                          !.filters = filters,
                                          !.outcome = IF r.exc = "" THEN "ok" ELSE r.exc,
                                          !.result = r.rows,
                                          !.before = Len(docDb.documents)]
          /\ docHist' = IF r.exc = "" THEN docHist ELSE [docHist EXCEPT !.raised = TRUE]
    /\ UNCHANGED <<docDb, docConn, analyzerVars, sqlVars, ragVars>>

\* the call has returned or raised: the caller has its outcome
DocReturn ==
    /\ docLast.op # "none"
    /\ docLast' = NoDocCall
    /\ UNCHANGED <<docDb, docConn, docHist, analyzerVars, sqlVars, ragVars>>

DocNext ==
    \/ \E ds \in DocBatches, namespace \in Namespaces : DocInsert(ds, namespace)
    \/ \E namespace \in Namespaces, filters \in DocFilters : DocQuery(namespace, filters)
    \/ DocReturn

SpecDoc == DocInit /\ [][DocNext]_vars

(***************************************************************************)
(* rag/query_router.py                                                     *)
(***************************************************************************)
Ktarget == <<"t", "a", "r", "g", "e", "t">>
Kfilters == <<"f", "i", "l", "t", "e", "r", "s">>
Kfields == <<"f", "i", "e", "l", "d", "s">>
Klimit == <<"l", "i", "m", "i", "t">>
Ktop_table == <<"t", "o", "p", "_", "t", "a", "b", "l", "e">>
Knamespace == <<"n", "a", "m", "e", "s", "p", "a", "c", "e">>
DefaultNamespace == <<"d", "e", "f", "a", "u", "l", "t">>
DefaultLimit == 100

\* bool(v)
Truthy(v) ==
    CASE v.t = "null" -> FALSE
      [] v.t \in {"bool", "int", "float"} -> v.n # 0
      [] v.t = "str" -> v.s # <<>>
      [] v.t \in {"obj", "list"} -> v.kids # <<>>

\* x or dflt
OrElse(x, dflt) == IF Truthy(x) THEN x ELSE dflt

RouteByFilters(reg, request) ==
    LET schema == get(reg, DictGet(request.kids, Ktarget, VNull).s)
    IN IF DictHas(request.kids, Kfilters) THEN <<"SQL", request>> ELSE <<"DOC", request>>
route(reg, request) ==
    LET schema == get(reg, DictGet(request.kids, Ktarget, VNull).s)
    IN IF ~Truthy(schema) THEN <<"DOC", request>>
       ELSE IF DictHas(schema.kids, Ktop_table) THEN <<"SQL", request>>
       ELSE <<"DOC", request>>

\* f"{k} = ?" of every filter, in the order of the items
WhereClauses(items) == [i \in 1..Len(items) |-> items[i].k \o <<" ", "=", " ", "?">>]
Params(items) == [i \in 1..Len(items) |-> items[i].v]

WhereInlined(items) ==
    [i \in 1..Len(items) |-> items[i].k \o <<" ", "=", " ">> \o py_str(items[i].v)]

SqlQueryInlined(schema, request) ==
    LET items == OrElse(DictGet(request.kids, Kfilters, VNull), VObj(<<>>)).kids
        fields == OrElse(DictGet(request.kids, Kfields, VNull), VList(<<VStr(<<"*">>)>>)).kids
        where == IF items # <<>>
                 THEN <<" ", "W", "H", "E", "R", "E", " ">> \o Join(<<" ", "A", "N", "D", " ">>, WhereInlined(items))
                 ELSE <<>>
        limit == <<" ", "L", "I", "M", "I", "T", " ">> \o IntChars(DictGet(request.kids, Klimit, VInt(DefaultLimit)).n)
    IN IF ~DictHas(schema.kids, Ktop_table) THEN [outcome |-> "KeyError", sql |-> <<>>, params |-> <<>>]
       ELSE [outcome |-> "ok",
             sql |-> <<"S", "E", "L", "E", "C", "T", " ">> \o Join(<<",", " ">>, [i \in 1..Len(fields) |-> fields[i].v.s])
                     \o <<" ", "F", "R", "O", "M", " ">> \o py_str(DictGet(schema.kids, Ktop_table, VNull))
                     \o where \o limit,
             params |-> <<>>]
build_sql_query(schema, request) ==
    LET items == OrElse(DictGet(request.kids, Kfilters, VNull), VObj(<<>>)).kids
        fields == OrElse(DictGet(request.kids, Kfields, VNull), VList(<<VStr(<<"*">>)>>)).kids
        where == IF WhereClauses(items) # <<>>
                 THEN <<" ", "W", "H", "E", "R", "E", " ">> \o Join(<<" ", "A", "N", "D", " ">>, WhereClauses(items))
                 ELSE <<>>
        limit == <<" ", "L", "I", "M", "I", "T", " ">> \o IntChars(DictGet(request.kids, Klimit, VInt(DefaultLimit)).n)
    IN IF ~DictHas(schema.kids, Ktop_table) THEN [outcome |-> "KeyError", sql |-> <<>>, params |-> <<>>]
       ELSE [outcome |-> "ok",
             sql |-> <<"S", "E", "L", "E", "C", "T", " ">> \o Join(<<",", " ">>, [i \in 1..Len(fields) |-> fields[i].v.s])
                     \o <<" ", "F", "R", "O", "M", " ">> \o py_str(DictGet(schema.kids, Ktop_table, VNull))
                     \o where \o limit,
             params |-> Params(items)]

build_doc_query(request) ==
    VObj(<<KV(Knamespace, DictGet(request.kids, Ktarget, VStr(DefaultNamespace))),
           KV(Kfilters, OrElse(DictGet(request.kids, Kfilters, VNull), VObj(<<>>)))>>)

(***************************************************************************)
(* Registry and router: the names, the schemas and the requests            *)
(***************************************************************************)
MaxSnapshots == 3     \* registry: register calls

NOrders == <<"o", "r", "d", "e", "r", "s">>
NLogs == <<"l", "o", "g", "s">>
RegNames == {NOrders, NLogs}

Ktop_cols == <<"t", "o", "p", "_", "c", "o", "l", "s">>
Kchild_tables == <<"c", "h", "i", "l", "d", "_", "t", "a", "b", "l", "e", "s">>
Kname == <<"n", "a", "m", "e">>
Kroot_path == <<"r", "o", "o", "t", "_", "p", "a", "t", "h">>
Kpaths == <<"p", "a", "t", "h", "s">>
Kcountry == <<"c", "o", "u", "n", "t", "r", "y">>
Kqty == <<"q", "t", "y">>

\* what propose_sql_model returns for documents {name, country, orders: [{...}]}
RelationalModel ==
    VObj(<<KV(Ktop_table, VStr(TopTable)),
           KV(Ktop_cols, VList(<<VStr(Kname), VStr(Kcountry)>>)),
           KV(Kchild_tables,
              VList(<<VObj(<<KV(Kname, VStr(NOrders)),
                             KV(Kroot_path, VStr(NOrders \o Brackets))>>)>>))>>)
\* a document schema {paths, namespace}
DocumentSchema ==
    VObj(<<KV(Kpaths, VList(<<VStr(<<"e", "v", "e", "n", "t">>), VStr(<<"u", "s", "e", "r", ".", "i", "d">>)>>)),
           KV(Knamespace, VStr(DefaultNamespace))>>)
EmptySchema == VObj(<<>>)

NoNotes == <<>>
PurchaseNotes == <<"c", "u", "s", "t", "o", "m", "e", "r", " ", "p", "u", "r", "c", "h", "a", "s", "e", " ", "r", "e", "c", "o", "r", "d", "s">>

\* the (schema, notes) pairs a caller registers
Registrations ==
    {<<RelationalModel, PurchaseNotes>>, <<DocumentSchema, NoNotes>>, <<EmptySchema, NoNotes>>}
RegSchemas == {r[1] : r \in Registrations}

Request(target, filters, rest) ==
    VObj(<<KV(Ktarget, VStr(target))>> \o filters \o rest)
Filters(country, qty) ==
    <<KV(Kfilters, VObj(<<KV(Kcountry, country), KV(Kqty, qty)>>))>>
Injection == <<"x", " ", "O", "R", " ", "1", "=", "1">>
Selection == <<KV(Kfields, VList(<<VStr(Kname), VStr(Kcountry)>>)), KV(Klimit, VInt(5))>>
Requests ==
    {Request(NOrders, <<>>, <<>>),
     Request(NLogs, <<>>, <<>>),
     Request(NOrders, <<KV(Kfilters, VObj(<<>>))>>, <<>>),
     Request(NOrders, <<KV(Kfilters, VObj(<<KV(Kcountry, VStr(<<"I", "N">>))>>))>>, Selection),
     Request(NOrders, Filters(VStr(<<"I", "N">>), VInt(2)), Selection),
     Request(NOrders, Filters(VStr(Injection), VInt(3)), Selection),
     Request(NLogs, Filters(VStr(<<"I", "N">>), VInt(2)), <<>>),
     Request(NLogs, Filters(VStr(Injection), VInt(3)), <<>>)}

RegistryInit ==
    /\ RegIdle
    /\ RetIdle
    /\ SqlIdle
    /\ DocIdle
    /\ docs = <<>>
    /\ analysis = NoAnalysis
    /\ proposal = NoProposal

\* registry.register(name, schema, notes)
Register(name, schema, notes, ts) ==
    /\ regLast.op = "none"
    /\ retLast.op = "none"
    /\ Len(regCalls) < MaxSnapshots
    /\ ts \in Now(registry)
    /\ registry' = register(registry, name, schema, notes, ts)
    /\ regCalls' = Append(regCalls, [name |-> name, schema |-> schema, notes |-> notes])
    /\ UNCHANGED <<regLast, retVars, analyzerVars, sqlVars, docVars>>

\* registry.list()
List ==
    /\ regLast.op = "none"
    /\ regLast' = [NoRegCall EXCEPT !.op = "list", !.outcome = "ok", !.result = list(registry)]
    /\ UNCHANGED <<registry, regCalls, retVars, analyzerVars, sqlVars, docVars>>

\* registry.get(name)
Get(name) ==
    /\ regLast.op = "none"
    /\ regLast' = [NoRegCall EXCEPT !.op = "get", !.name = name, !.outcome = "ok",
                                    !.result = get(registry, name)]
    /\ UNCHANGED <<registry, regCalls, retVars, analyzerVars, sqlVars, docVars>>

\* registry.history(name)
History(name) ==
    /\ regLast.op = "none"
    /\ regLast' = [NoRegCall EXCEPT !.op = "history", !.name = name, !.outcome = "ok",
                                    !.result = history(registry, name)]
    /\ UNCHANGED <<registry, regCalls, retVars, analyzerVars, sqlVars, docVars>>

\* QueryRouter(registry).route(query)
Route(request) ==
    /\ regLast.op = "none"
    /\ regLast' = [NoRegCall EXCEPT !.op = "route", !.arg = request, !.outcome = "ok",
                                    !.result = route(registry, request)]
    /\ UNCHANGED <<registry, regCalls, retVars, analyzerVars, sqlVars, docVars>>

\* build_sql_query(schema, request)
BuildSqlQuery(schema, request) ==
    /\ regLast.op = "none"
    /\ \E r \in {build_sql_query(schema, request)} :
          regLast' = [NoRegCall EXCEPT !.op = "build_sql_query", !.arg = request,
                                       !.outcome = r.outcome,
                                       !.result = [schema |-> schema, sql |-> r.sql,
                                                   params |-> r.params]]
    /\ UNCHANGED <<registry, regCalls, retVars, analyzerVars, sqlVars, docVars>>

\* build_doc_query(request)
BuildDocQuery(request) ==
    /\ regLast.op = "none"
    /\ regLast' = [NoRegCall EXCEPT !.op = "build_doc_query", !.arg = request, !.outcome = "ok",
                                    !.result = build_doc_query(request)]
    /\ UNCHANGED <<registry, regCalls, retVars, analyzerVars, sqlVars, docVars>>

\* the caller has taken the result
RegReturn ==
    /\ regLast.op # "none"
    /\ regLast' = NoRegCall
    /\ UNCHANGED <<registry, regCalls, retVars, analyzerVars, sqlVars, docVars>>

RegistryNext ==
    \/ \E name \in RegNames, r \in Registrations, ts \in Now(registry) :
          Register(name, r[1], r[2], ts)
    \/ List
    \/ \E name \in RegNames : Get(name)
    \/ \E name \in RegNames : History(name)
    \/ \E request \in Requests : Route(request)
    \/ \E schema \in RegSchemas, request \in Requests : BuildSqlQuery(schema, request)
    \/ \E request \in Requests : BuildDocQuery(request)
    \/ RegReturn

SpecRegistry == RegistryInit /\ [][RegistryNext]_vars

(***************************************************************************)
(* Retriever: one caller registers, builds and searches.  The retriever    *)
(* does not read the time of a record, so the clock ticks at every call.   *)
(***************************************************************************)
NUsers == <<"u", "s", "e", "r", "s">>
IndexedNamesSet == {NOrders, NLogs, NUsers}
IndexedSchemas == {<<RelationalModel, PurchaseNotes>>, <<DocumentSchema, NoNotes>>}
PurchaseNotesMap == <<KV(NOrders, PurchaseNotes)>>
NotesMaps == {NoNotesMap, PurchaseNotesMap}
QPurchase == <<"c", "u", "s", "t", "o", "m", "e", "r", " ", "p", "u", "r", "c", "h", "a", "s", "e">>
QOrders == <<"o", "r", "d", "e", "r", "s">>
QEvent == <<"E", "v", "e", "n", "t">>
Queries == {QPurchase, QOrders, QEvent}
DefaultTopK == 5
TopKs == {0, 1, DefaultTopK}

RetrieverInit == RegistryInit

\* retriever.build(registry, notes_map)
Build(notes_map) ==
    /\ retLast.op = "none"
    /\ \E built \in {build(retriever, registry, notes_map)} : retriever' = built
    /\ retLast' = [NoRetCall EXCEPT !.op = "build", !.outcome = "ok",
                      !.built = [calls |-> Len(regCalls), default |-> notes_map = NoNotesMap,
                                 ran |-> TRUE]]
    /\ UNCHANGED <<procs, regVars, analyzerVars, sqlVars, docVars>>

\* retriever.search(text, top_k)
Search(text, top_k) ==
    /\ retLast.op = "none"
    /\ \E r \in {search(retriever, text, top_k)} :
          retLast' = [retLast EXCEPT !.op = "search", !.text = text, !.top_k = top_k,
                                     !.outcome = r.outcome, !.result = r.result]
    /\ UNCHANGED <<retriever, procs, regVars, analyzerVars, sqlVars, docVars>>

\* the caller has taken the result
RetReturn ==
    /\ retLast.op # "none"
    /\ retLast' = [NoRetCall EXCEPT !.built = retLast.built]
    /\ UNCHANGED <<retriever, procs, regVars, analyzerVars, sqlVars, docVars>>

RetrieverNext ==
    \/ \E name \in IndexedNamesSet, r \in IndexedSchemas :
          Register(name, r[1], r[2], Len(regCalls) + 1)
    \/ \E notes_map \in NotesMaps : Build(notes_map)
    \/ \E text \in Queries, top_k \in TopKs : Search(text, top_k)
    \/ RetReturn

SpecRetriever == RetrieverInit /\ [][RetrieverNext]_vars

(***************************************************************************)
(* Threads.  Two callers each register a schema and rebuild the index, a   *)
(* third searches; nothing in registry.py or retriever.py takes a lock,    *)
(* so the threads interleave between any two statements.  A step is one    *)
(* statement: one write to an attribute or one call that reads them.       *)
(* fit_transform first stores the fitted vocabulary and idf in the         *)
(* vectorizer and then returns the matrix, which build assigns after.      *)
(***************************************************************************)
Ingesters == {1, 2}
Searcher == 3
Threads == Ingesters \cup {Searcher}

IngestOf(t) == IF t = 1 THEN <<NOrders, RelationalModel, PurchaseNotes>>
               ELSE <<NLogs, DocumentSchema, NoNotes>>

\* the locals of a thread: where it is, the arguments of its calls, the
\* locals of build and of search, how it ended, and for the search the
\* registry listings of the builds it may have read from: the last one
\* completed before it began and those completed since
IdleThread ==
    [pc |-> "idle", name |-> <<>>, schema |-> VNull, notes |-> <<>>,
     items |-> <<>>, i |-> 0, matrix |-> NoMatrix,
     text |-> <<>>, top_k |-> 0, qv |-> <<>>, sims |-> <<>>,
     outcome |-> "", result |-> <<>>, allowed |-> {}]

\* the retriever a build of the listing leaves when nothing runs beside it
Rebuilt(items) == build(NewRetriever, [schemas |-> items, snapshots |-> <<>>], NoNotesMap)

ConcurrentInit ==
    /\ RegIdle
    /\ retriever = NewRetriever
    /\ retLast = NoRetCall
    /\ procs = [th |-> [t \in Threads |-> IdleThread], lastBuilt |-> <<>>]
    /\ SqlIdle
    /\ DocIdle
    /\ docs = <<>>
    /\ analysis = NoAnalysis
    /\ proposal = NoProposal

At(t, pc) == procs.th[t].pc = pc
Goto(t, pc) == [procs EXCEPT !.th[t].pc = pc]

\* a caller begins: registry.register(name, schema, notes), then retriever.build(registry)
IngestStart(t) ==
    /\ At(t, "idle")
    /\ procs' = [procs EXCEPT !.th[t].pc = "r_schemas",
                              !.th[t].name = IngestOf(t)[1],
                              !.th[t].schema = IngestOf(t)[2],
                              !.th[t].notes = IngestOf(t)[3]]
    /\ UNCHANGED <<retriever, retLast, regVars, analyzerVars, sqlVars, docVars>>

\* self.schemas[name] = schema
RegisterSchemas(t) ==
    /\ At(t, "r_schemas")
    /\ registry' = [registry EXCEPT
                       !.schemas = DictSet(registry.schemas, procs.th[t].name, procs.th[t].schema)]
    /\ procs' = Goto(t, "r_snapshots")
    /\ UNCHANGED <<regCalls, regLast, retriever, retLast, analyzerVars, sqlVars, docVars>>

\* self.snapshots.append({...})
RegisterSnapshot(t) ==
    /\ At(t, "r_snapshots")
    /\ registry' = [registry EXCEPT
                       !.snapshots = Append(registry.snapshots,
                                            Snapshot(Len(registry.snapshots) + 1, procs.th[t].name,
                                                     procs.th[t].schema, procs.th[t].notes))]
    /\ regCalls' = Append(regCalls, [name |-> procs.th[t].name, schema |-> procs.th[t].schema,
                                     notes |-> procs.th[t].notes])
    /\ procs' = Goto(t, "b_names")
    /\ UNCHANGED <<regLast, retriever, retLast, analyzerVars, sqlVars, docVars>>

\* self.names = []
BuildResetNames(t) ==
    /\ At(t, "b_names")
    /\ retriever' = [retriever EXCEPT !.names = <<>>]
    /\ procs' = Goto(t, "b_docs")
    /\ UNCHANGED <<retLast, regVars, analyzerVars, sqlVars, docVars>>

\* self.docs = []
BuildResetDocs(t) ==
    /\ At(t, "b_docs")
    /\ retriever' = [retriever EXCEPT !.docs = <<>>]
    /\ procs' = Goto(t, "b_list")
    /\ UNCHANGED <<retLast, regVars, analyzerVars, sqlVars, docVars>>

\* for name, sch in registry.list(): the listing is taken once
BuildList(t) ==
    /\ At(t, "b_list")
    /\ procs' = [procs EXCEPT !.th[t].items = list(registry), !.th[t].i = 1,
                              !.th[t].pc = IF list(registry) = <<>> THEN "b_test" ELSE "b_name"]
    /\ UNCHANGED <<retriever, retLast, regVars, analyzerVars, sqlVars, docVars>>

\* self.names.append(name)
BuildAppendName(t) ==
    /\ At(t, "b_name")
    /\ retriever' = [retriever EXCEPT
                        !.names = Append(retriever.names, procs.th[t].items[procs.th[t].i].k)]
    /\ procs' = Goto(t, "b_doc")
    /\ UNCHANGED <<retLast, regVars, analyzerVars, sqlVars, docVars>>

\* self.docs.append(schema_to_text(name, sch, notes)), and the next turn of the loop
BuildAppendDoc(t) ==
    /\ At(t, "b_doc")
    /\ \E text \in {schema_to_text(procs.th[t].items[procs.th[t].i].k,
                                   procs.th[t].items[procs.th[t].i].v, <<>>)} :
          retriever' = [retriever EXCEPT !.docs = Append(retriever.docs, text)]
    /\ procs' = [procs EXCEPT !.th[t].i = procs.th[t].i + 1,
                              !.th[t].pc = IF procs.th[t].i < Len(procs.th[t].items)
                                           THEN "b_name" ELSE "b_test"]
    /\ UNCHANGED <<retLast, regVars, analyzerVars, sqlVars, docVars>>

\* if self.docs:
BuildTest(t) ==
    /\ At(t, "b_test")
    /\ procs' = [procs EXCEPT
                    !.th[t].pc = IF retriever.docs = <<>> THEN "done" ELSE "b_fit",
                    !.th[t].outcome = IF retriever.docs = <<>> THEN "ok" ELSE "",
                    !.lastBuilt = IF retriever.docs = <<>> THEN procs.th[t].items
                                  ELSE procs.lastBuilt,
                    !.th[Searcher].allowed =
                        IF retriever.docs = <<>> /\ ~At(Searcher, "idle") /\ ~At(Searcher, "done")
                        THEN procs.th[Searcher].allowed \cup {procs.th[t].items}
                        ELSE procs.th[Searcher].allowed]
    /\ UNCHANGED <<retriever, retLast, regVars, analyzerVars, sqlVars, docVars>>

\* self.vectorizer.fit_transform(self.docs): the vectorizer is fitted to the
\* documents self.docs holds now; without documents it raises ValueError
BuildFit(t) ==
    /\ At(t, "b_fit")
    /\ IF retriever.docs = <<>>
       THEN /\ procs' = [procs EXCEPT !.th[t].pc = "done", !.th[t].outcome = "ValueError"]
            /\ UNCHANGED retriever
       ELSE \E fitted \in {FitTransform(retriever.docs)} :
               /\ retriever' = [retriever EXCEPT !.vectorizer = fitted.vectorizer]
               /\ procs' = [procs EXCEPT !.th[t].pc = "b_matrix", !.th[t].matrix = fitted.matrix]
    /\ UNCHANGED <<retLast, regVars, analyzerVars, sqlVars, docVars>>

\* self.matrix = the matrix fit_transform returned
BuildMatrix(t) ==
    /\ At(t, "b_matrix")
    /\ retriever' = [retriever EXCEPT !.matrix = procs.th[t].matrix]
    /\ procs' = [procs EXCEPT
                    !.th[t].pc = "done", !.th[t].outcome = "ok",
                    !.lastBuilt = procs.th[t].items,
                    !.th[Searcher].allowed =
                        IF ~At(Searcher, "idle") /\ ~At(Searcher, "done")
                        THEN procs.th[Searcher].allowed \cup {procs.th[t].items}
                        ELSE procs.th[Searcher].allowed]
    /\ UNCHANGED <<retLast, regVars, analyzerVars, sqlVars, docVars>>

\* retriever.search(text, top_k) begins
SearchStart(text, top_k) ==
    /\ At(Searcher, "idle")
    /\ procs' = [procs EXCEPT !.th[Searcher].pc = "s_docs", !.th[Searcher].text = text,
                              !.th[Searcher].top_k = top_k,
                              !.th[Searcher].allowed = {procs.lastBuilt}]
    /\ UNCHANGED <<retriever, retLast, regVars, analyzerVars, sqlVars, docVars>>

\* if not self.docs: return []
SearchTest ==
    /\ At(Searcher, "s_docs")
    /\ procs' = [procs EXCEPT
                    !.th[Searcher].pc = IF retriever.docs = <<>> THEN "done" ELSE "s_transform",
                    !.th[Searcher].outcome = IF retriever.docs = <<>> THEN "ok" ELSE ""]
    /\ UNCHANGED <<retriever, retLast, regVars, analyzerVars, sqlVars, docVars>>

\* qv = self.vectorizer.transform([query]); NotFittedError before the first fit
SearchTransform ==
    /\ At(Searcher, "s_transform")
    /\ IF ~retriever.vectorizer.fitted
       THEN procs' = [procs EXCEPT !.th[Searcher].pc = "done",
                                   !.th[Searcher].outcome = "NotFittedError"]
       ELSE \E qv \in {Transform(retriever.vectorizer, procs.th[Searcher].text)} :
               procs' = [procs EXCEPT !.th[Searcher].pc = "s_cosine", !.th[Searcher].qv = qv]
    /\ UNCHANGED <<retriever, retLast, regVars, analyzerVars, sqlVars, docVars>>

\* sims = cosine_similarity(qv, self.matrix)[0]; ValueError when the matrix
\* is None or its rows are not as long as qv
SearchCosine ==
    /\ At(Searcher, "s_cosine")
    /\ IF \/ retriever.matrix.none
          \/ \E i \in 1..Len(retriever.matrix.rows) :
                Len(retriever.matrix.rows[i]) # Len(procs.th[Searcher].qv)
       THEN procs' = [procs EXCEPT !.th[Searcher].pc = "done",
                                   !.th[Searcher].outcome = "ValueError"]
       ELSE \E sims \in {Similarities(procs.th[Searcher].qv, retriever.matrix)} :
               procs' = [procs EXCEPT !.th[Searcher].pc = "s_rank", !.th[Searcher].sims = sims]
    /\ UNCHANGED <<retriever, retLast, regVars, analyzerVars, sqlVars, docVars>>

\* ranked = sorted(zip(self.names, sims), ...)[:top_k]; return ranked
SearchRank ==
    /\ At(Searcher, "s_rank")
    /\ procs' = [procs EXCEPT
                    !.th[Searcher].pc = "done", !.th[Searcher].outcome = "ok",
                    !.th[Searcher].result =
                        SliceTo(Sorted(Zip(retriever.names, procs.th[Searcher].sims)),
                                procs.th[Searcher].top_k)]
    /\ UNCHANGED <<retriever, retLast, regVars, analyzerVars, sqlVars, docVars>>

ConcurrentNext ==
    \/ \E t \in Ingesters :
          \/ IngestStart(t)
          \/ RegisterSchemas(t)
          \/ RegisterSnapshot(t)
          \/ BuildResetNames(t)
          \/ BuildResetDocs(t)
          \/ BuildList(t)
          \/ BuildAppendName(t)
          \/ BuildAppendDoc(t)
          \/ BuildTest(t)
          \/ BuildFit(t)
          \/ BuildMatrix(t)
    \/ SearchStart(QOrders, DefaultTopK)
    \/ SearchTest
    \/ SearchTransform
    \/ SearchCosine
    \/ SearchRank

SpecConcurrent == ConcurrentInit /\ [][ConcurrentNext]_vars

(***************************************************************************)
(* Proposer: a batch is analyzed and a model is proposed for the analysis  *)
(***************************************************************************)
MaxProposed == 3      \* proposer: documents in a batch

Ksku == <<"s", "k", "u">>
\* {"id": id, "name": name, "country": country, "orders": [{"sku": .., "qty": ..}, ...]}
Customer(id, name, country, orders) ==
    VObj(<<KV(ColId, VInt(id)), KV(Kname, VStr(name)), KV(Kcountry, VStr(country)),
           KV(NOrders, VList(orders))>>)
Purchase(sku, qty) == VObj(<<KV(Ksku, VStr(sku)), KV(Kqty, VInt(qty))>>)
Alice == Customer(1, <<"A", "l", "i", "c", "e">>, <<"I", "N">>, <<Purchase(<<"A", "1">>, 2)>>)
Bob == Customer(2, <<"B", "o", "b">>, <<"U", "S">>, <<Purchase(<<"B", "1">>, 1), Purchase(<<"B", "2">>, 3)>>)
\* no orders yet: the array is empty
Carol == Customer(3, <<"C", "a", "r", "o", "l">>, <<"I", "N">>, <<>>)
\* {"id": 4, "address": {"country": "US"}}
Dave == VObj(<<KV(ColId, VInt(4)), KV(<<"a", "d", "d", "r", "e", "s", "s">>,
               VObj(<<KV(Kcountry, VStr(<<"U", "S">>))>>))>>)
Kaddress == <<"a", "d", "d", "r", "e", "s", "s">>
\* {"address.country": "IN", "address": {"country": 1}, "id": "e"}: the paths
\* of Dave, the dotted key and the nested one being the same path
Erin == VObj(<<KV(Kaddress \o <<".">> \o Kcountry, VStr(<<"I", "N">>)),
               KV(Kaddress, VObj(<<KV(Kcountry, VInt(1))>>)),
               KV(ColId, VStr(<<"e">>))>>)
\* {}
Blank == VObj(<<>>)
\* {"id": 5, "tags[]": "x"}: a key as form fields have them
Form == VObj(<<KV(ColId, VInt(5)), KV(<<"t", "a", "g", "s", "[", "]">>, VStr(<<"x">>))>>)
\* {"id": 6, "items": [{"sku": "A1", "qty": 1}]}
Cart == VObj(<<KV(ColId, VInt(6)), KV(TopTable, VList(<<Purchase(<<"A", "1">>, 1)>>))>>)
\* {"id": 7, "hub": {"bays": [{"qty": 1}]}, "hub_bays": [{"qty": 2}]}
Khub == <<"h", "u", "b">>
Kbays == <<"b", "a", "y", "s">>
Depot == VObj(<<KV(ColId, VInt(7)),
                KV(Khub, VObj(<<KV(Kbays, VList(<<VObj(<<KV(Kqty, VInt(1))>>)>>))>>)),
                KV(Khub \o <<"_">> \o Kbays, VList(<<VObj(<<KV(Kqty, VInt(2))>>)>>))>>)
ProposerDocs == {Alice, Bob, Carol, Dave, Erin, Blank, Form, Cart, Depot}

ProposerInit ==
    /\ docs \in SeqsUpTo(ProposerDocs, MaxProposed)
    /\ analysis = NoAnalysis
    /\ proposal = NoProposal
    /\ SqlIdle
    /\ DocIdle
    /\ RagIdle

\* propose_sql_model(analysis)
Propose ==
    /\ analysis.status = "ok"
    /\ proposal = NoProposal
    /\ proposal' = propose_sql_model(analysis)
    /\ UNCHANGED <<docs, analysis, sqlVars, docVars, ragVars>>

ProposerNext == AnalyzeBatch \/ Propose

SpecProposer == ProposerInit /\ [][ProposerNext]_vars

(***************************************************************************)
(* Analyzer claims                                                         *)
(***************************************************************************)
Analyzed == analysis.status # "none"
Returned == analysis.status = "ok"

\* the stability score of the spec's formula in exact arithmetic, compared
\* with 0.15:  c/n - T/(10 n) - (O/N)/n >= 3/20, multiplied by 20 n N, where
\* N is the batch size, n the number of paths, c the number of paths present
\* in at least 0.8 N documents, T the sum of the distinct-type counts and O
\* the sum over the paths of the documents that lack the path
RECURSIVE AbsentSum(_, _)
AbsentSum(path_types, N) ==
    IF path_types = <<>> THEN 0
    ELSE (N - CounterSum(Head(path_types).v)) + AbsentSum(Tail(path_types), N)

RECURSIVE VariabilitySum(_)
VariabilitySum(path_types) ==
    IF path_types = <<>> THEN 0
    ELSE CounterLen(Head(path_types).v) + VariabilitySum(Tail(path_types))

ExactScoreAtLeastThreshold ==
    LET pt == analysis.path_types
        N == Len(docs)
        n == Len(pt)
        c == Cardinality({i \in 1..n : 5 * CounterSum(pt[i].v) >= 4 * N})
    IN 20 * N * c - 2 * N * VariabilitySum(pt) - 20 * AbsentSum(pt, N) >= 3 * n * N

RelationPathExists ==
    \E i \in 1..Len(analysis.path_types) : EndsWithBrackets(analysis.path_types[i].k)

\* C1: for a non-empty batch of objects the decision is SQL exactly when the
\* stability score of the formula is at least 0.15 or a relation path exists.
C1_DecisionIffScoreOrRelation ==
    (Returned /\ docs # <<>>) =>
        (analysis.decision = "SQL" <=> (ExactScoreAtLeastThreshold \/ RelationPathExists))

\* a field, top-level or nested inside maps, whose value is a non-empty array
\* of objects
RECURSIVE HasObjectArray(_)
HasObjectArray(d) ==
    \E i \in 1..Len(d.kids) :
        LET v == d.kids[i].v
        IN \/ /\ IsList(v)
              /\ v.kids # <<>>
              /\ \A j \in 1..Len(v.kids) : IsDict(v.kids[j].v)
           \/ IsDict(v) /\ HasObjectArray(v)

BatchHasObjectArray == \E i \in 1..Len(docs) : IsDict(docs[i]) /\ HasObjectArray(docs[i])

\* C2: a batch in which some document has an array-of-objects field is
\* decided SQL whatever the stability score is.
C2_ObjectArrayForcesSQL ==
    (Returned /\ BatchHasObjectArray) => analysis.decision = "SQL"

\* an array-of-objects batch whose score is negative was decided
C2_Witness ==
    /\ Returned
    /\ BatchHasObjectArray
    /\ analysis.stability_score.sg = -1
    /\ analysis.decision = "SQL"

\* C3: an empty batch, or a batch with an element that is not a map, makes
\* analyze_batch fail with a ValidationError and yields no decision.
C3_InvalidBatchRaisesValidationError ==
    (Analyzed /\ (docs = <<>> \/ \E i \in 1..Len(docs) : ~IsDict(docs[i]))) =>
        (analysis.status = "raised" /\ analysis.exc = "ValidationError")

(***************************************************************************)
(* SQLStore claims                                                         *)
(***************************************************************************)
InsertReturned == sqlLast.op = "insert" /\ sqlLast.outcome = "ok"
InsertRaised == sqlLast.op = "insert" /\ sqlLast.outcome # "ok"

\* C4: an insert that fails leaves the database as it was before the call:
\* no top row and no child row of the batch is persisted, the rows that
\* existed are unchanged.
C4_FailedInsertPersistsNothing == [][InsertRaised' => sqlDb' = sqlDb]_vars

\* rows existed before the call, the first document and its child rows were
\* written, a later document failed, and the database holds what it held
C4_Witness ==
    /\ InsertRaised
    /\ sqlLast.before >= 1
    /\ sqlLast.failDoc >= 2
    /\ sqlLast.done >= 2
    /\ Len(TopRows(sqlDb)) = sqlLast.before

RawOf(row) == json_loads(DictGet(row.vals, ColRaw, VNull).s)

\* C5: after a successful insert the top table holds one new row per
\* document, in the order of the batch, and the raw payload read back from
\* the i-th new row is the i-th document.
C5_RawRoundTrip ==
    InsertReturned =>
        LET ds == Caller(sqlLast.d).docs
            rows == TopRows(sqlDb)
        IN /\ Len(rows) = sqlLast.before + Len(ds)
           /\ \A i \in 1..Len(ds) :
                /\ RawOf(rows[sqlLast.before + i]) = ds[i]
                /\ \A j \in 1..(sqlLast.before + i - 1) :
                      rows[j].id < rows[sqlLast.before + i].id

\* ensure_schema(model, docs[0]) and insert(model, docs) of a batch of two
\* documents with nested arrays and maps, into a table that had rows
C5_Witness ==
    /\ InsertReturned
    /\ sqlLast.m = sqlLast.d
    /\ sqlLast.m \in sqlLast.ensured
    /\ sqlLast.before >= 1
    /\ Len(Caller(sqlLast.d).docs) = 2
    /\ \A i \in 1..2 : HasObjectArray(Caller(sqlLast.d).docs[i])

\* the elements of the array of objects at a root path, the arrays of
\* objects on the way included (orders.items: the items of every order)
RECURSIVE ElementsAt(_, _, _)
RECURSIVE ElementsOfEach(_, _, _, _)
ElementsOfEach(kids, j, parts, i) ==
    IF j > Len(kids) THEN <<>>
    ELSE ElementsAt(kids[j].v, parts, i) \o ElementsOfEach(kids, j + 1, parts, i)

ElementsAt(v, parts, i) ==
    IF IsList(v) THEN (IF i > Len(parts) THEN v.kids ELSE ElementsOfEach(v.kids, 1, parts, i))
    ELSE IF IsDict(v) /\ i <= Len(parts)
    THEN ElementsAt(DictGet(v.kids, parts[i], VNull), parts, i + 1)
    ELSE <<>>

\* the child rows of a table that carry the parent id
LinkedRows(db, name, parent_id) ==
    LET rows == Stored(db, name).rows
    IN {r \in 1..Len(rows) : DictGet(rows[r].vals, ColParentId, VNull) = VInt(parent_id)}

\* C6: when a batch is inserted with the model proposed for it, after
\* ensure_schema on its first document, every child-table spec gets one row
\* per element of the array at its root path, linked to the top row of the
\* document the element is in.
C6_OneChildRowPerElement ==
    (/\ sqlLast.op = "insert"
     /\ sqlLast.m = sqlLast.d
     /\ sqlLast.m \in sqlLast.ensured
     /\ sqlLast.fail = 0) =>
        LET ds == Caller(sqlLast.d).docs
            model == Caller(sqlLast.m).model
            rows == TopRows(sqlDb)
        IN \A i \in 1..Len(ds), c \in 1..Len(model.child_tables) :
              LET elements == ElementsAt(ds[i], Split(model.child_tables[c].root_path, "."), 1)
                  linked == IF sqlLast.before + i <= Len(rows)
                            THEN LinkedRows(sqlDb, model.child_tables[c].name,
                                            rows[sqlLast.before + i].id)
                            ELSE {}
              IN Cardinality(linked) = Len(elements)

(***************************************************************************)
(* DocStore claims                                                         *)
(***************************************************************************)
DocInsertRaised == docLast.op = "insert" /\ docLast.outcome # "ok"

\* the keys of the top-level string, number and bool fields of a stored document
ScalarKeys(row) ==
    LET d == json_loads(row.raw_json)
    IN IF IsDict(d) THEN {d.kids[i].k : i \in {j \in 1..Len(d.kids) : IsIndexed(d.kids[j].v)}}
       ELSE {}

\* the keys the index holds for a document id
IndexedKeys(db, id) ==
    {db.key_index[i].key : i \in {j \in 1..Len(db.key_index) : db.key_index[j].doc_id = id}}

\* C7: in every committed state each document is fully present or fully
\* absent: a committed documents row has the index rows of all its
\* top-level scalar fields, and every committed index row belongs to a
\* committed documents row.
C7_CommittedDocumentsAreWhole ==
    /\ \A r \in 1..Len(docDb.documents) :
          IndexedKeys(docDb, docDb.documents[r].id) = ScalarKeys(docDb.documents[r])
    /\ \A i \in 1..Len(docDb.key_index) :
          \E r \in 1..Len(docDb.documents) : docDb.documents[r].id = docDb.key_index[i].doc_id

\* C8: when insert fails at one document, every other document of the call
\* is persisted: the committed documents grow by all the documents of the
\* call but the failing one.
C8_FailureKeepsTheOtherDocuments ==
    DocInsertRaised => Len(docDb.documents) = docLast.before + Len(docLast.docs) - 1

\* C9: when no call has failed, query(X) without filters returns as many
\* documents as were inserted into X, and their ids are pairwise distinct.
C9_QueryReturnsTheInserted ==
    (docLast.op = "query" /\ docLast.filters = <<>> /\ ~docHist.raised) =>
        /\ docLast.outcome = "ok"
        /\ Len(docLast.result) = docHist.given[docLast.namespace]
        /\ \A i, j \in 1..Len(docLast.result) :
              i # j => docLast.result[i].id # docLast.result[j].id

\* two or more documents are in the namespace asked for, more are in the
\* other one, and the query returned those of the namespace
C9_Witness ==
    /\ docLast.op = "query"
    /\ docLast.filters = <<>>
    /\ ~docHist.raised
    /\ docHist.given[docLast.namespace] >= 2
    /\ \E ns \in Namespaces : ns # docLast.namespace /\ docHist.given[ns] >= 1
    /\ Len(docLast.result) = docHist.given[docLast.namespace]

\* the value of a document at a dot path, through maps only
RECURSIVE ValueAt(_, _, _)
ValueAt(cur, parts, i) ==
    IF i > Len(parts) THEN [found |-> TRUE, v |-> cur]
    ELSE IF IsDict(cur) /\ DictHas(cur.kids, parts[i])
    THEN ValueAt(DictGet(cur.kids, parts[i], VNull), parts, i + 1)
    ELSE [found |-> FALSE, v |-> VNull]

\* the document has, at the path of every filter, the value of the filter
HasFilterValues(doc, filters) ==
    \A i \in 1..Len(filters) :
        LET at == ValueAt(doc, Split(filters[i].k, "."), 1)
        IN at.found /\ at.v = filters[i].v

\* C10: query returns exactly the stored documents of the namespace that
\* have, at the dot path of every filter, the value of the filter.
C10_QueryReturnsExactlyTheMatches ==
    docLast.op = "query" =>
        /\ docLast.outcome = "ok"
        /\ {docLast.result[i].id : i \in 1..Len(docLast.result)}
            = {docConn.documents[r].id : r \in
                 {q \in 1..Len(docConn.documents) :
                     /\ docConn.documents[q].namespace = docLast.namespace
                     /\ HasFilterValues(json_loads(docConn.documents[q].raw_json),
                                        docLast.filters)}}

(***************************************************************************)
(* Registry and router claims                                              *)
(***************************************************************************)
Registered(name) == \E i \in 1..Len(regCalls) : regCalls[i].name = name
LastRegister(name) ==
    CHOOSE i \in 1..Len(regCalls) :
        /\ regCalls[i].name = name
        /\ \A j \in (i + 1)..Len(regCalls) : regCalls[j].name # name
Current(name) == regCalls[LastRegister(name)].schema

\* C11: get(name) returns the schema of the most recent register call for
\* the name, or None when the name was never registered; list() holds one
\* (name, schema) pair per registered name and no other, the schema being
\* the current one.
C11_GetAndListGiveTheCurrentSchema ==
    /\ regLast.op = "get" =>
          regLast.result = IF Registered(regLast.name) THEN Current(regLast.name) ELSE VNull
    /\ regLast.op = "list" =>
          /\ \A n \in RegNames :
                Cardinality({i \in 1..Len(regLast.result) : regLast.result[i].k = n})
                    = IF Registered(n) THEN 1 ELSE 0
          /\ \A i \in 1..Len(regLast.result) :
                regLast.result[i].v = Current(regLast.result[i].k)

\* a name registered twice with different schemas, the other name in between
C11_Witness ==
    /\ regLast.op = "get"
    /\ Len(regCalls) = 3
    /\ regCalls[1].name = regLast.name
    /\ regCalls[2].name # regLast.name
    /\ regCalls[3].name = regLast.name
    /\ regCalls[1].schema # regCalls[3].schema
    /\ regLast.result = regCalls[3].schema

RecordOf(call, s) == s.name = call.name /\ s.schema = call.schema /\ s.notes = call.notes
CallsOf(name) == SelectSeq(regCalls, LAMBDA c : c.name = name)

\* C12: every register call appends one record and no step removes,
\* reorders or changes a record; record i is what call i registered, also
\* after later calls for the same name; history(name) returns the records
\* of the name in the order of the calls.
C12_HistoryIsAppendOnly ==
    /\ [][/\ Len(registry'.snapshots) = Len(registry.snapshots) + (Len(regCalls') - Len(regCalls))
          /\ SubSeq(registry'.snapshots, 1, Len(registry.snapshots)) = registry.snapshots]_vars
    /\ [](/\ Len(registry.snapshots) = Len(regCalls)
          /\ \A i \in 1..Len(regCalls) : RecordOf(regCalls[i], registry.snapshots[i]))
    /\ [](regLast.op = "history" =>
             /\ Len(regLast.result) = Len(CallsOf(regLast.name))
             /\ \A i \in 1..Len(regLast.result) :
                   RecordOf(CallsOf(regLast.name)[i], regLast.result[i])
             /\ \E f \in [1..Len(regLast.result) -> 1..Len(registry.snapshots)] :
                   /\ \A i \in 1..Len(regLast.result) : registry.snapshots[f[i]] = regLast.result[i]
                   /\ \A i, j \in 1..Len(regLast.result) : i < j => f[i] < f[j])

\* the history of a name registered twice, with different schemas
C12_Witness ==
    /\ regLast.op = "history"
    /\ Len(regLast.result) = 2
    /\ regLast.result[1].schema # regLast.result[2].schema
    /\ Len(regCalls) = 3

Target(request) == DictGet(request.kids, Ktarget, VNull).s

\* C13: route returns SQL when the target is registered with a schema that
\* has top_table, DOC when it is registered without it or not registered;
\* it raises nothing, returns the request as it was given and leaves the
\* registry as it was.
C13_RouteFollowsTheRegistry ==
    /\ [](regLast.op = "route" =>
             /\ regLast.outcome = "ok"
             /\ regLast.result[2] = regLast.arg
             /\ regLast.result[1] =
                   IF /\ Registered(Target(regLast.arg))
                      /\ DictHas(Current(Target(regLast.arg)).kids, Ktop_table)
                   THEN "SQL" ELSE "DOC")
    /\ [][regLast'.op = "route" => registry' = registry]_vars

\* a request with filters for a target registered without top_table
C13_Witness ==
    /\ regLast.op = "route"
    /\ Registered(Target(regLast.arg))
    /\ Current(Target(regLast.arg)) = DocumentSchema
    /\ DictHas(regLast.arg.kids, Kfilters)
    /\ regLast.result[1] = "DOC"

\* the first place at or after i where sub starts, 0 when there is none
RECURSIVE Find(_, _, _)
Find(str, sub, i) ==
    IF i + Len(sub) - 1 > Len(str) THEN 0
    ELSE IF StartsWithAt(str, i, sub) THEN i
    ELSE Find(str, sub, i + 1)

\* str.split(sep) for a separator of several characters
RECURSIVE SplitOn(_, _)
SplitOn(str, sep) ==
    LET at == Find(str, sep, 1)
    IN IF at = 0 THEN <<str>>
       ELSE <<SubSeq(str, 1, at - 1)>> \o SplitOn(SubSeq(str, at + Len(sep), Len(str)), sep)

\* the terms of the WHERE clause of a statement
WhereTerms(sql) ==
    LET w == Find(sql, <<" ", "W", "H", "E", "R", "E", " ">>, 1)
        l == Find(sql, <<" ", "L", "I", "M", "I", "T", " ">>, 1)
    IN IF w = 0 THEN <<>> ELSE SplitOn(SubSeq(sql, w + 7, l - 1), <<" ", "A", "N", "D", " ">>)

FilterItems(request) ==
    LET f == DictGet(request.kids, Kfilters, VNull)
    IN IF f.t = "obj" THEN f.kids ELSE <<>>

\* the two requests differ in their filter values at most
SameButFilterValues(r1, r2) ==
    /\ DictKeys(r1.kids) = DictKeys(r2.kids)
    /\ \A i \in 1..Len(r1.kids) : r1.kids[i].k # Kfilters => r1.kids[i].v = r2.kids[i].v
    /\ DictKeys(FilterItems(r1)) = DictKeys(FilterItems(r2))

\* C14: the statement of build_sql_query has one term "field = ?" per
\* filter, in the order of the filters and joined by AND; the parameters
\* are the filter values in that order; the text is the same for every
\* request that differs in its filter values only.
C14_FilterValuesArePositionalParameters ==
    (regLast.op = "build_sql_query" /\ regLast.outcome = "ok") =>
        LET items == FilterItems(regLast.arg)
        IN /\ WhereTerms(regLast.result.sql)
                 = [i \in 1..Len(items) |-> items[i].k \o <<" ", "=", " ", "?">>]
           /\ regLast.result.params = [i \in 1..Len(items) |-> items[i].v]
           /\ \A r2 \in Requests :
                 SameButFilterValues(regLast.arg, r2) =>
                     build_sql_query(regLast.result.schema, r2).sql = regLast.result.sql

\* a statement with two filters, one of them carrying SQL text as its value
C14_Witness ==
    /\ regLast.op = "build_sql_query"
    /\ regLast.outcome = "ok"
    /\ Len(regLast.result.params) = 2
    /\ regLast.result.params[1] = VStr(Injection)
    /\ Len(WhereTerms(regLast.result.sql)) = 2

(***************************************************************************)
(* Retriever claims                                                        *)
(***************************************************************************)
\* the register calls made before the last build
CallsAtBuild == SubSeq(regCalls, 1, retLast.built.calls)
NotesAtBuild(name) ==
    LET mine == SelectSeq(CallsAtBuild, LAMBDA c : c.name = name)
    IN mine[Len(mine)].notes
Scored(name) == {retLast.result[j].score : j \in {k \in 1..Len(retLast.result) :
                                                    retLast.result[k].name = name}}

\* C15: after register(name, schema, notes) and build(registry) the text
\* indexed for the name contains the notes, and a search whose terms all
\* occur in the notes returns the name with a score above zero.
C15_NotesAreIndexed ==
    (retLast.built.ran /\ retLast.built.default) =>
        \A i \in 1..Len(retriever.names) :
            LET notes == NotesAtBuild(retriever.names[i])
            IN /\ Find(retriever.docs[i], notes, 1) > 0
               /\ (/\ retLast.op = "search"
                   /\ retLast.top_k >= Len(retriever.names)
                   /\ notes # <<>>
                   /\ SeqToSet(Terms(retLast.text)) \subseteq SeqToSet(Terms(notes)))
                  => \E score \in Scored(retriever.names[i]) : score > 0

FirstRegistered(name) ==
    CHOOSE i \in 1..Len(regCalls) :
        /\ regCalls[i].name = name
        /\ \A j \in 1..(i - 1) : regCalls[j].name # name

\* C16: the pairs search returns are in non-increasing order of score, and
\* of two pairs with the same score the one whose name was registered first
\* comes first.
C16_RankedByScoreThenRegistration ==
    (retLast.op = "search" /\ retLast.outcome = "ok") =>
        \A i, j \in 1..Len(retLast.result) :
            i < j =>
                \/ retLast.result[i].score > retLast.result[j].score
                \/ /\ retLast.result[i].score = retLast.result[j].score
                   /\ FirstRegistered(retLast.result[i].name)
                          < FirstRegistered(retLast.result[j].name)

\* two names with the same score above zero, ranked before the name that
\* was registered first
C16_Witness ==
    /\ retLast.op = "search"
    /\ Len(retLast.result) = 3
    /\ retLast.result[1].score = retLast.result[2].score
    /\ retLast.result[2].score > retLast.result[3].score
    /\ FirstRegistered(retLast.result[3].name) = 1

\* the number of schemas the registry held at the last build
BuiltCount == Cardinality({CallsAtBuild[i].name : i \in 1..Len(CallsAtBuild)})

\* C17: search raises nothing and returns min(top_k, n) pairs, n the number
\* of schemas at the last build; none when the registry was empty then or
\* no build has run.
C17_SearchReturnsTopK ==
    retLast.op = "search" =>
        /\ retLast.outcome = "ok"
        /\ Len(retLast.result) = Min(retLast.top_k, BuiltCount)

\* fewer pairs asked for than schemas indexed, and a registration after
\* the build
C17_Witness ==
    /\ retLast.op = "search"
    /\ retLast.top_k = 1
    /\ BuiltCount = 2
    /\ Len(regCalls) > retLast.built.calls
    /\ Len(retLast.result) = 1

(***************************************************************************)
(* Concurrency claims                                                      *)
(***************************************************************************)
SearchDone == At(Searcher, "done")

\* C18: a search that runs while a build runs returns what a search of one
\* completed build returns: of the last build completed before the search
\* began or of one completed while it ran; it never reads a partly filled
\* list of names, or the names of one build beside the matrix of another.
C18_SearchSeesOneCompletedBuild ==
    SearchDone =>
        /\ procs.th[Searcher].outcome = "ok"
        /\ \E items \in procs.th[Searcher].allowed :
              procs.th[Searcher].result
                  = search(Rebuilt(items), procs.th[Searcher].text, procs.th[Searcher].top_k).result

InSection(t) == ~At(t, "idle") /\ ~At(t, "done")
TimesIndexed(name) == Cardinality({i \in 1..Len(retriever.names) : retriever.names[i] = name})

\* C19: the register-and-rebuild sections of two callers never overlap, and
\* when both are done the registry holds both names and the index holds
\* every registered name once.
C19_RegisterAndRebuildAreExclusive ==
    /\ ~(InSection(1) /\ InSection(2))
    /\ (At(1, "done") /\ At(2, "done")) =>
          /\ \A t \in Ingesters : DictHas(registry.schemas, IngestOf(t)[1])
          /\ \A t \in Ingesters : TimesIndexed(IngestOf(t)[1]) = 1
          /\ Len(retriever.names) = 2

(***************************************************************************)
(* Proposer claims                                                         *)
(***************************************************************************)
Proposed == proposal # NoProposal
ObservedPaths == SeqToSet(DictKeys(analysis.path_types))

\* C20: the top columns of the proposed model are the observed paths that
\* have no ".", do not end in "[]" and are not the field of a relation (a
\* field holding an array of objects is a child table, not a column), each
\* once; for the batch of Alice and Bob they are id, name, country.
C20_TopColsAreTheFlatFields ==
    Proposed =>
        /\ SeqToSet(proposal.top_cols)
              = {p \in ObservedPaths :
                    /\ ~Contains(p, ".")
                    /\ ~EndsWithBrackets(p)
                    /\ (p \o Brackets) \notin ObservedPaths}
        /\ Cardinality(SeqToSet(proposal.top_cols)) = Len(proposal.top_cols)
        /\ docs = <<Alice, Bob>> => proposal.top_cols = <<ColId, Kname, Kcountry>>

(***************************************************************************)
(* SQLStore claims: errors, schema evolution, call order                   *)
(***************************************************************************)
\* C21: when insert fails, the error it reports is a StorageError that names
\* the position in the batch of the document whose insertion failed.
C21_InsertFailureIsAStorageError ==
    InsertRaised =>
        /\ sqlLast.outcome = "StorageError"
        /\ sqlLast.failDoc >= 1 => sqlLast.named = sqlLast.failDoc

EnsureReturned == sqlLast.op = "ensure_schema" /\ sqlLast.outcome = "ok"

\* C22: after ensure_schema(model, sample) the physical top table has a
\* column for every top column of the model, also when the table existed
\* before the call with fewer columns (so that an insert with values for
\* the new columns can succeed).
C22_EnsureSchemaExtendsTheTable ==
    EnsureReturned =>
        SeqToSet(Caller(sqlLast.m).model.top_cols) \subseteq Stored(sqlDb, TopTable).cols

\* the child-table specs whose array the sample document lacks
RawOnly(model, sample_doc) ==
    {c \in 1..Len(model.child_tables) :
        ~IsList(_get_by_path(sample_doc, model.child_tables[c].root_path))}

\* the rows of a child table linked to a parent hold the elements, raw
RawsOf(db, name, parent_id) ==
    LET rows == Stored(db, name).rows
        linked == SelectSeq(rows, LAMBDA r : DictGet(r.vals, ColParentId, VNull) = VInt(parent_id))
    IN [j \in 1..Len(linked) |-> RawOf(linked[j])]

\* C24: when the sample document lacks the array of a child-table spec,
\* ensure_schema creates the child table with the id, parent key and raw
\* columns only, and the insert of the batch, in which later documents have
\* elements in that array, succeeds and stores one child row per element
\* with the raw element.
C24_RawOnlyFallback ==
    /\ EnsureReturned =>
          \A c \in RawOnly(Caller(sqlLast.m).model, Caller(sqlLast.m).docs[1]) :
             LET name == Caller(sqlLast.m).model.child_tables[c].name
             IN sqlLast.before = 0 /\ sqlLast.ensured = {sqlLast.m}
                   => Stored(sqlDb, name).cols = {ColId, ColParentId, ColRaw}
    /\ (/\ sqlLast.op = "insert"
        /\ sqlLast.m = sqlLast.d
        /\ sqlLast.ensured = {sqlLast.m}
        /\ sqlLast.before = 0
        /\ sqlLast.fail = 0
        /\ ~sqlArgs.proposed) =>
          LET ds == Caller(sqlLast.d).docs
              model == Caller(sqlLast.m).model
              rows == TopRows(sqlDb)
          IN \A c \in RawOnly(model, ds[1]) :
                (\A i \in 1..Len(ds) : \A k \in 1..Len(ds[i].kids) :
                     IsContainer(ds[i].kids[k].v) => ds[i].kids[k].k = model.child_tables[c].root_path)
                => /\ sqlLast.outcome = "ok"
                   /\ \A i \in 1..Len(ds) :
                         LET data_list == _get_by_path(ds[i], model.child_tables[c].root_path)
                         IN IsList(data_list) =>
                               RawsOf(sqlDb, model.child_tables[c].name, rows[i].id)
                                  = [j \in 1..Len(data_list.kids) |-> data_list.kids[j].v]

TableNames(model) ==
    {model.top_table} \cup {model.child_tables[i].name : i \in 1..Len(model.child_tables)}

\* the tables ensure_schema has been called for on this instance
EnsuredNames == UNION {TableNames(Caller(w).model) : w \in sqlLast.ensured}

\* C30: an insert changes the database only if ensure_schema has been called
\* on this instance for the top table and the child tables of its model; on
\* an instance where ensure_schema has not been called the insert raises
\* before any statement is executed and the database is left as it was.
C30_InsertNeedsEnsureSchema ==
    [][(sqlLast.op = "none" /\ sqlLast'.op = "insert") =>
          /\ sqlDb' # sqlDb =>
                TableNames(Caller(sqlLast'.m).model) \subseteq EnsuredNames
          /\ sqlLast.ensured = {} =>
                /\ sqlLast'.outcome = "KeyError"
                /\ sqlLast'.done = 0
                /\ sqlDb' = sqlDb]_vars

\* a new instance over a database that holds rows: its insert raised
C30_Witness ==
    /\ InsertRaised
    /\ sqlLast.ensured = {}
    /\ sqlLast.before >= 1
    /\ sqlLast.outcome = "KeyError"
    /\ Len(TopRows(sqlDb)) = sqlLast.before

(***************************************************************************)
(* Analyzer and proposer claims: relations, path statistics, table names   *)
(***************************************************************************)
ChildTables == [i \in 1..Len(proposal.child_tables) |-> proposal.child_tables[i]]
ChildNames == [i \in 1..Len(proposal.child_tables) |-> proposal.child_tables[i].name]

\* C23: the proposed model has exactly one child-table spec per relation
\* path of the analysis: as many child tables as relation paths, the root
\* paths are the relation paths without their [] markers, and every name is
\* the root path with "." replaced by "_".
C23_OneChildTablePerRelation ==
    Proposed =>
        /\ Len(proposal.child_tables) = Len(analysis.relations)
        /\ {ChildTables[i].root_path : i \in 1..Len(ChildTables)}
              = {Replace(analysis.relations[i], Brackets, <<>>) :
                    i \in 1..Len(analysis.relations)}
        /\ \A i \in 1..Len(ChildTables) :
              ChildTables[i].name = Replace(ChildTables[i].root_path, <<".">>, <<"_">>)

\* C26: in the path statistics of a returned analysis the type counts of
\* every path add up to at least 1 and at most the batch size, every
\* optionality is in [0, 1) and every type variability is at least 1.
C26_PathStatsWithinTheBatch ==
    Returned =>
        \A i \in 1..Len(analysis.path_types) :
            /\ CounterSum(analysis.path_types[i].v) >= 1
            /\ CounterSum(analysis.path_types[i].v) <= Len(docs)
            /\ FGe(analysis.optionality[i].v, FZero)
            /\ ~FGe(analysis.optionality[i].v, FromInt(1))
            /\ analysis.type_variability[i].v >= 1

\* a batch with a document whose dotted key and nested key are one path, a
\* path that some document lacks and a path seen with two types
C26_Witness ==
    /\ Returned
    /\ \E i \in 1..Len(docs) : docs[i] = Erin
    /\ \E i \in 1..Len(analysis.path_types) :
          CounterSum(analysis.path_types[i].v) < Len(docs)
    /\ \E i \in 1..Len(analysis.path_types) : analysis.type_variability[i].v >= 2

\* C27: the table names of a proposed model are pairwise distinct: no two
\* child tables have the same name and no child table is named as the top
\* table.
C27_TableNamesAreDistinct ==
    Proposed =>
        /\ \A i, j \in 1..Len(ChildNames) : ChildNames[i] = ChildNames[j] => i = j
        /\ \A i \in 1..Len(ChildNames) : ChildNames[i] # proposal.top_table

PathSet(d) == SeqToSet(DictKeys(flatten_paths(d, <<>>)))
SamePaths == \A i, j \in 1..Len(docs) : PathSet(docs[i]) = PathSet(docs[j])

\* C29: a batch of documents that all have the same set of flattened paths
\* (a batch of one document is one) is decided SQL whatever the types of
\* the values; DOC is decided only for at least two documents whose path
\* sets differ.
C29_SamePathsDecideSQL ==
    (Returned /\ docs # <<>>) =>
        /\ SamePaths => analysis.decision = "SQL"
        /\ analysis.decision = "DOC" => (Len(docs) >= 2 /\ ~SamePaths)

\* C29 as the code has it: a batch of documents that all have the same set
\* of flattened paths, with at least one path, is decided SQL whatever the
\* types of the values; DOC is decided only for documents without any key
\* or for at least two documents whose path sets differ.
C29_SameNonEmptyPathsDecideSQL ==
    (Returned /\ docs # <<>>) =>
        /\ (SamePaths /\ analysis.path_types # <<>>) => analysis.decision = "SQL"
        /\ analysis.decision = "DOC" =>
              (analysis.path_types = <<>> \/ (Len(docs) >= 2 /\ ~SamePaths))

\* two documents with the same paths and other types, no relation path
C29_Witness ==
    /\ Returned
    /\ Len(docs) >= 2
    /\ SamePaths
    /\ analysis.relations = <<>>
    /\ \E i \in 1..Len(analysis.path_types) : analysis.type_variability[i].v >= 2
    /\ analysis.decision = "SQL"

(***************************************************************************)
(* Documents queried by a registered name: the registry, the router and    *)
(* the DocStore of one caller.  The caller registers document schemas and  *)
(* relational models, inserts into the DocStore, and answers a request     *)
(* with route, build_doc_query and DocStore.query.                         *)
(***************************************************************************)
RoutedNames == {NLogs, DefaultNamespace}
RoutedSchemas == {DocumentSchema, RelationalModel}
RoutedRequests ==
    {Request(name, filters, <<>>) :
        name \in RoutedNames,
        filters \in {<<>>, <<KV(Kfilters, VObj(<<KV(Ka, VInt(1))>>))>>}}

RoutedInit ==
    /\ RegIdle
    /\ RetIdle
    /\ SqlIdle
    /\ DocIdle
    /\ docs = <<>>
    /\ analysis = NoAnalysis
    /\ proposal = NoProposal

\* store.insert(ds): the namespace is the default of the parameter
RoutedInsert(ds) ==
    /\ docLast.op = "none"
    /\ regLast.op = "none"
    /\ Len(docConn.documents) + Len(ds) <= MaxDocRows
    /\ \E st \in {RunDocInsert(docConn, ds, DefaultNamespace, 0)} :
          /\ docDb' = CommitAfterLoop(docDb, st)
          /\ docConn' = st.db
          /\ docLast' = [NoDocCall EXCEPT !.op = "insert", !.namespace = DefaultNamespace,
                                          !.docs = ds,
                                          !.outcome = IF st.exc = "" THEN "ok" ELSE st.exc,
                                          !.failDoc = st.failDoc,
                                          !.before = Len(docDb.documents)]
    /\ UNCHANGED <<docHist, regVars, retVars, analyzerVars, sqlVars>>

\* kind, q = router.route(request); on DOC: store.query(**build_doc_query(q))
RoutedQuery(request) ==
    /\ regLast.op = "none"
    /\ docLast.op = "none"
    /\ \E routed \in {route(registry, request)} :
          /\ regLast' = [NoRegCall EXCEPT !.op = "route", !.arg = request, !.outcome = "ok",
                                          !.result = routed]
          /\ IF routed[1] = "DOC"
             THEN \E q \in {build_doc_query(routed[2])} :
                     \E r \in {query(docConn, DictGet(q.kids, Knamespace, VNull).s,
                                      DictGet(q.kids, Kfilters, VNull).kids)} :
                        docLast' = [NoDocCall EXCEPT
                                       !.op = "query",
                                       !.namespace = DictGet(q.kids, Knamespace, VNull).s,
                                       !.filters = DictGet(q.kids, Kfilters, VNull).kids,
                                       !.outcome = IF r.exc = "" THEN "ok" ELSE r.exc,
                                       !.result = r.rows,
                                       !.before = Len(docDb.documents)]
             ELSE docLast' = docLast
    /\ UNCHANGED <<registry, regCalls, docDb, docConn, docHist, retVars, analyzerVars, sqlVars>>

RoutedNext ==
    \/ \E name \in RoutedNames, schema \in RoutedSchemas :
          Register(name, schema, NoNotes, Len(regCalls) + 1)
    \/ \E ds \in DocBatches \ {<<>>} : RoutedInsert(ds)
    \/ \E request \in RoutedRequests : RoutedQuery(request)
    \/ RegReturn
    \/ DocReturn

SpecRouted == RoutedInit /\ [][RoutedNext]_vars

\* the request was routed to the DocStore and answered
RoutedToDoc ==
    /\ regLast.op = "route"
    /\ docLast.op = "query"
    /\ Registered(Target(regLast.arg))
    /\ DictHas(Current(Target(regLast.arg)).kids, Knamespace)

\* C28: for a target registered as a document schema {paths, namespace: N}
\* the query built from the request addresses namespace N, and the answer
\* holds the documents stored under N that match the filters: those of an
\* ingestion registered with namespace "default" and inserted under
\* "default" are returned when queried by their registered name.
C28_DocQueryAddressesTheSchemaNamespace ==
    RoutedToDoc =>
        LET N == DictGet(Current(Target(regLast.arg)).kids, Knamespace, VNull).s
        IN /\ docLast.namespace = N
           /\ docLast.result = query(docConn, N, docLast.filters).rows

(***************************************************************************)
(* Retriever claims: rebuild                                               *)
(***************************************************************************)
\* the names registered before the last build, each once, in the order of
\* their first registration
NamesAtBuild == Distinct([i \in 1..Len(CallsAtBuild) |-> CallsAtBuild[i].name])

\* C25: once a build has finished, the indexed names are the names the
\* registry held at that build, each once and in the order of their first
\* registration, with one rendered document per name, whatever was built
\* before; a search returns no name that was registered after the build.
C25_BuildIsACompleteRebuild ==
    retLast.built.ran =>
        /\ retriever.names = NamesAtBuild
        /\ Len(retriever.docs) = Len(retriever.names)
        /\ retriever.names # <<>> => Len(retriever.matrix.rows) = Len(retriever.names)
        /\ \A i \in 1..Len(retriever.docs) :
              StartsWithAt(retriever.docs[i], 1,
                           <<"n", "a", "m", "e", ":", " ">> \o retriever.names[i] \o <<"\n">>)
        /\ retLast.op = "search" =>
              \A j \in 1..Len(retLast.result) :
                  retLast.result[j].name \in SeqToSet(NamesAtBuild)

\* two names were built, one of them registered twice before the build or
\* a third name registered after it, and a search for all returned the two
C25_Witness ==
    /\ retLast.built.ran
    /\ retLast.op = "search"
    /\ retLast.top_k = DefaultTopK
    /\ Len(NamesAtBuild) = 2
    /\ Len(regCalls) = 3
    /\ Len(retLast.result) = 2

====
